---- MODULE Spec2Model ----
(***************************************************************************)
(* A model of the EventEmitter of packages/EventEmitter (index.ts and      *)
(* helpers/index.ts): the listener registry, the metadata side table, the  *)
(* feature flags, TTL timers, wildcard patterns and the emission engine.   *)
(*                                                                         *)
(* Strings that the code inspects character by character (event names and  *)
(* wildcard patterns) are sequences of one-character strings.              *)
(* A listener identity is a record [fn, wrap, key]: wrap = 0 is a callable *)
(* supplied by the caller, wrap > 0 is the closure addListener builds for  *)
(* a `times` registration (it captures the event name and the original),   *)
(* wrap < 0 is a handler closure built by waitFor or race.                 *)
(***************************************************************************)
EXTENDS Integers, Sequences, FiniteSets, TLC

VARIABLES
    events,              \* this.events: key -> listeners in array order
    onceEvents,          \* this.onceEvents
    wildcards,           \* this.wildcards: Map in insertion order
    anyListeners,        \* this.anyListeners
    pipes,               \* this.pipes
    metadata,            \* the WeakMap's entries
    hasMeta,             \* this.metadata !== undefined
    flags,               \* this.flags, as the set of its bits
    propagationStopped,  \* this.propagationStopped
    timers,              \* pending setTimeout callbacks
    ntimer,              \* timer handles handed out so far
    nwrap,               \* closures built so far (`times` wrappers, handlers)
    promises,            \* the promises handed out and what their closures capture
    now,                 \* Date.now(), in units of the cleanup threshold's scale
    sweeps,              \* history: the times at which the cleanup interval fired
    regs,                \* history: the registry calls made, in order
    elapsed,             \* history: registrations whose ttl has elapsed
    last                 \* history: the last emission and what it did

vars == <<events, onceEvents, wildcards, anyListeners, pipes, metadata, hasMeta,
          flags, propagationStopped, timers, ntimer, nwrap, promises, now,
          sweeps, regs, elapsed, last>>

----------------------------------------------------------------------------
(* Bounds of the model *)

MaxRegs == 2
MaxEmits == 2
MaxPromises == 1
MaxTime == 2
MaxPatterns == 3

----------------------------------------------------------------------------
(* Inputs *)

Names == {<<"a">>, <<"b">>}
Patterns == {<<"a", "*">>}
AllKeys == Names \cup Patterns
Fns == {"f", "g", "s"}
Targets == {"t"}
ArgTuples == {<<0>>, <<1>>}

\* The catch-all key, and patterns with the names they are tried on
CatchAll == <<"*">>
GlobPatterns == {<<"u", ".", "*">>, <<"u", ".", "*", "*">>, <<"a", "?", "b">>}
GlobNames ==
    {<<"u", ".", "c">>, <<"u", ".", "c", ".", "e">>, <<"u", "x", "c">>,
     <<"a", "x", "b">>, <<"a", "b">>}

\* A pattern the RegExp constructor rejects, and a second pattern that
\* matches the name `a`
BadPattern == <<"?">>
StarA == <<"*", "a">>

\* The empty string, which is a string key like any other
EmptyName == <<>>

StoreKeys ==
    AllKeys \cup GlobPatterns \cup GlobNames \cup {CatchAll, BadPattern, StarA, EmptyName}

\* opts.autoCleanupThreshold of the emitters that are built with the
\* cleanup interval, in the unit of the clock
AutoCleanupThreshold == 1

Fn(name) == [fn |-> name, wrap |-> 0, key |-> <<>>]

\* What a callable does when it runs: "s" calls emitter.stopPropagation()
\* (README, "Stopping propagation"), "x" throws, "p" returns a promise that
\* will resolve and "r" one that will reject, "waitFor" and "race" are the
\* handlers those methods build; "e" calls emitter.emit('a', n - 1) when
\* its argument n is positive, "o" calls emitter.once('a', h), "d" calls
\* emitter.removeListener('a', d) and "k" emitter.removeListener('a', f);
\* the others only return.
Behaviour(name) ==
    CASE name = "s" -> "stop"
      [] name = "x" -> "throw"
      [] name = "e" -> "emit"
      [] name = "o" -> "once"
      [] name = "d" -> "removeSelf"
      [] name = "k" -> "removeOther"
      [] name = "p" -> "resolve"
      [] name = "r" -> "reject"
      [] name = "waitFor" -> "waitFor"
      [] name = "race" -> "race"
      [] OTHER -> "plain"

\* The filter predicates a registration may carry.
FilterAccepts(filter, args) ==
    IF filter = "nonzero" THEN Len(args) > 0 /\ args[1] # 0 ELSE TRUE

NoOptions == [given |-> FALSE, priority |-> 0, times |-> -1, ttl |-> 0, filter |-> "none"]

Options(p, t, d, flt) ==
    [given |-> TRUE, priority |-> p, times |-> t, ttl |-> d, filter |-> flt]

----------------------------------------------------------------------------
(* Sequence helpers *)

Min(a, b) == IF a < b THEN a ELSE b

RemoveAt(s, i) == SubSeq(s, 1, i - 1) \o SubSeq(s, i + 1, Len(s))

InsertAt(s, i, x) == SubSeq(s, 1, i - 1) \o <<x>> \o SubSeq(s, i, Len(s))

\* Array.prototype.indexOf, 1-based; 0 when absent
IndexOf(s, x) ==
    IF \E i \in 1..Len(s) : s[i] = x
    THEN CHOOSE i \in 1..Len(s) : s[i] = x /\ \A j \in 1..(i - 1) : s[j] # x
    ELSE 0

Range(s) == {s[i] : i \in 1..Len(s)}

----------------------------------------------------------------------------
(* Pattern Matcher: compilePattern and RegExp.test *)

\* key.includes('*') || key.includes('?')
IsPattern(key) == \E i \in 1..Len(key) : key[i] \in {"*", "?"}

\* One regular-expression atom with its quantifier.
Atom(c, q) == [c |-> c, q |-> q]

\* The text after .replace(/\*\*/g, '.*').replace(/\*/g, '[^.]*'), read as
\* the RegExp constructor reads it: the second replace also rewrites the
\* star the first one wrote, so `**` becomes `.` followed by `[^.]*`; a `.`
\* of the pattern is the any-character atom; `?` quantifies the atom before
\* it. The result is <<>> of atoms, or "invalid" when RegExp would throw.
RECURSIVE CompileFrom(_, _, _)
CompileFrom(p, i, acc) ==
    IF i > Len(p) THEN [ok |-> TRUE, atoms |-> acc]
    ELSE IF p[i] = "*" /\ i < Len(p) /\ p[i + 1] = "*"
         THEN CompileFrom(p, i + 2, acc \o <<Atom("any", "1"), Atom("nodot", "*")>>)
    ELSE IF p[i] = "*" THEN CompileFrom(p, i + 1, Append(acc, Atom("nodot", "*")))
    ELSE IF p[i] = "." THEN CompileFrom(p, i + 1, Append(acc, Atom("any", "1")))
    ELSE IF p[i] = "?"
         THEN IF acc = <<>> \/ acc[Len(acc)].q \in {"*?", "??"}
              THEN [ok |-> FALSE, atoms |-> <<>>]
              ELSE CompileFrom(p, i + 1,
                       [acc EXCEPT ![Len(acc)].q =
                           IF @ = "1" THEN "?" ELSE IF @ = "*" THEN "*?" ELSE "??"])
    ELSE CompileFrom(p, i + 1, Append(acc, Atom(p[i], "1")))

compilePattern(p) ==
    IF p = <<"*">> \/ p = <<"*", "*">>
    THEN [ok |-> TRUE, atoms |-> <<Atom("any", "*")>>]
    ELSE CompileFrom(p, 1, <<>>)

AtomAccepts(a, ch) ==
    IF a.c = "any" THEN TRUE
    ELSE IF a.c = "nodot" THEN ch # "."
    ELSE a.c = ch

\* ^atoms$ against name, from atom i and character j
RECURSIVE MatchFrom(_, _, _, _)
MatchFrom(atoms, i, name, j) ==
    IF i > Len(atoms) THEN j > Len(name)
    ELSE LET a == atoms[i]
             here == j <= Len(name) /\ AtomAccepts(a, name[j])
         IN  IF a.q = "1" THEN here /\ MatchFrom(atoms, i + 1, name, j + 1)
             ELSE IF a.q \in {"?", "??"}
                  THEN \/ MatchFrom(atoms, i + 1, name, j)
                       \/ here /\ MatchFrom(atoms, i + 1, name, j + 1)
             ELSE \/ MatchFrom(atoms, i + 1, name, j)
                  \/ here /\ MatchFrom(atoms, i, name, j + 1)

\* pattern.test(name) for the compiled form of the pattern text
PatternTest(p, name) ==
    LET c == compilePattern(p) IN c.ok /\ MatchFrom(c.atoms, 1, name, 1)

----------------------------------------------------------------------------
(* The emitter object. The operators below take the object's fields as one *)
(* record e and return the record after the call.                          *)

EmptyStore == [k \in StoreKeys |-> <<>>]

NoMetadata == [l \in {} |-> 0]

NoListener == [fn |-> "", wrap |-> 0, key |-> <<>>]

HAS_WILDCARDS == 1
HAS_PIPES == 2
HAS_ANY == 4
HAS_FILTERS == 8

NewEmitter ==
    [events |-> EmptyStore, onceEvents |-> EmptyStore, wildcards |-> <<>>,
     anyListeners |-> <<>>, pipes |-> <<>>, metadata |-> NoMetadata,
     hasMeta |-> FALSE, flags |-> {}, stopped |-> FALSE,
     timers |-> {}, ntimer |-> 0, nwrap |-> 0, promises |-> <<>>, now |-> 0]

\* A key holds a bare function when exactly one listener is registered and
\* an array otherwise: every path that shrinks an array to one element
\* stores that element, and every path that grows a function builds an array.
IsFunction(v) == Len(v) = 1

\* metaMap.get(listener) !== undefined
HasMetaFor(e, l) == e.hasMeta /\ l \in DOMAIN e.metadata

\* existingMeta?.priority ?? 0
PriorityOf(e, l) == IF HasMetaFor(e, l) THEN e.metadata[l].priority ELSE 0

\* metaMap.set(listener, meta)
MetaSet(e, l, meta) ==
    [e EXCEPT !.metadata = [x \in (DOMAIN e.metadata) \cup {l} |->
                               IF x = l THEN meta ELSE e.metadata[x]]]

\* A cleanup that also cancels the timer of the waitFor or race call whose
\* handler is cleaned up
cleanupListener_CancelsWait(e, l) ==
    IF ~e.hasMeta THEN e
    ELSE LET tid == IF l \in DOMAIN e.metadata THEN e.metadata[l].timeoutId ELSE 0
         IN  [e EXCEPT !.timers = {t \in @ : t.id # tid},
                       !.metadata = [x \in (DOMAIN e.metadata) \ {l} |-> e.metadata[x]],
                       !.promises = [p \in DOMAIN e.promises |->
                                        IF l \in Range(e.promises[p].closures)
                                        THEN [e.promises[p] EXCEPT !.timer = FALSE]
                                        ELSE e.promises[p]]]

cleanupListener(e, l) ==
    IF ~e.hasMeta THEN e
    ELSE LET tid == IF l \in DOMAIN e.metadata THEN e.metadata[l].timeoutId ELSE 0
         IN  [e EXCEPT !.timers = {t \in @ : t.id # tid},
                       !.metadata = [x \in (DOMAIN e.metadata) \ {l} |-> e.metadata[x]]]

RECURSIVE CleanupEach(_, _, _)
CleanupEach(e, ls, i) ==
    IF i > Len(ls) THEN e ELSE CleanupEach(cleanupListener(e, ls[i]), ls, i + 1)

checkFilter(e, l, args) ==
    IF HasMetaFor(e, l) /\ e.metadata[l].filter # "none"
    THEN FilterAccepts(e.metadata[l].filter, args)
    ELSE TRUE

\* The meta record addListener, once and addWildcardListener build, with the
\* timer they arm; tid = 0 when no timer is armed.
NewMeta(opts, original, tid, date) ==
    [priority |-> opts.priority, times |-> opts.times, timeoutId |-> tid,
     original |-> original, filter |-> opts.filter, lastAccess |-> date]

\* The priority scan of addListener and once: the array is scanned after the
\* new listener's own metadata has been stored, and when the key was empty
\* the array scanned is [listener] itself.
PriorityInsert(e, current, l, priority) ==
    LET arr == IF current = <<>> THEN <<l>> ELSE current
        hits == {i \in 1..Len(arr) : priority > PriorityOf(e, arr[i])}
    IN  IF hits = {} THEN Append(arr, l)
        ELSE InsertAt(arr, CHOOSE i \in hits : \A j \in hits : i <= j, l)

\* Position of a pattern in the wildcards Map; 0 when absent
WildIndex(w, p) ==
    IF \E i \in 1..Len(w) : w[i].pattern = p
    THEN CHOOSE i \in 1..Len(w) : w[i].pattern = p
    ELSE 0

addWildcardListener(e, key, l, opts) ==
    LET i == WildIndex(e.wildcards, key)
        w == IF i = 0
             THEN Append(e.wildcards, [pattern |-> key, entries |-> <<l>>])
             ELSE [e.wildcards EXCEPT ![i].entries = Append(@, l)]
        e1 == [e EXCEPT !.wildcards = w, !.flags = @ \cup {HAS_WILDCARDS}]
    IN  IF ~compilePattern(key).ok THEN e
        ELSE IF opts.given /\ e.hasMeta
        THEN LET armed == opts.ttl > 0
                 tid == IF armed THEN e.ntimer + 1 ELSE 0
                 e2 == [e1 EXCEPT
                          !.ntimer = IF armed THEN tid ELSE @,
                          !.timers = IF armed
                                     THEN @ \cup {[id |-> tid, key |-> key, l |-> l, noop |-> TRUE]}
                                     ELSE @,
                          !.flags = IF opts.filter # "none" THEN @ \cup {HAS_FILTERS} ELSE @]
             IN  MetaSet(e2, l, NewMeta(opts, NoListener, tid, e.now))
        ELSE e1

\* addListener(eventName, listener, options); name is the callable passed
addListener(e, key, name, opts) ==
    LET fn == Fn(name) IN
    IF IsPattern(key) THEN addWildcardListener(e, key, fn, opts)
    ELSE IF key = <<"*">>
    THEN [e EXCEPT !.anyListeners = Append(@, fn), !.flags = @ \cup {HAS_ANY}]
    ELSE IF ~opts.given
    THEN [e EXCEPT !.events[key] = Append(@, fn)]
    ELSE LET wrapped == opts.times > 0
             final == IF wrapped
                      THEN [fn |-> name, wrap |-> e.nwrap + 1, key |-> key]
                      ELSE fn
             armed == opts.ttl > 0
             tid == IF armed THEN e.ntimer + 1 ELSE 0
             e1 == [e EXCEPT
                      !.hasMeta = TRUE,
                      !.nwrap = IF wrapped THEN @ + 1 ELSE @,
                      !.ntimer = IF armed THEN tid ELSE @,
                      !.timers = IF armed
                                 THEN @ \cup {[id |-> tid, key |-> key, l |-> final, noop |-> FALSE]}
                                 ELSE @,
                      !.flags = IF opts.filter # "none" THEN @ \cup {HAS_FILTERS} ELSE @]
             e2 == MetaSet(e1, final,
                           NewMeta(opts, IF wrapped THEN fn ELSE NoListener, tid, e.now))
         IN  IF opts.priority = 0
             THEN [e2 EXCEPT !.events[key] = Append(@, final)]
             ELSE [e2 EXCEPT !.events[key] =
                                 PriorityInsert(e2, @, final, opts.priority)]

\* The body of once for listener fn: every key of the model is a string, so
\* the symbol-only fast path is never taken
OnceWith(e, key, fn, opts) ==
    LET armed == opts.ttl > 0
        tid == IF armed THEN e.ntimer + 1 ELSE 0
        e1 == [e EXCEPT
                 !.hasMeta = TRUE,
                 !.ntimer = IF armed THEN tid ELSE @,
                 !.timers = IF armed
                            THEN @ \cup {[id |-> tid, key |-> key, l |-> fn, noop |-> FALSE]}
                            ELSE @,
                 !.flags = IF opts.filter # "none" THEN @ \cup {HAS_FILTERS} ELSE @]
        e2 == MetaSet(e1, fn, [NewMeta(opts, NoListener, tid, e.now) EXCEPT !.times = -1])
    IN  IF opts.priority = 0
        THEN [e2 EXCEPT !.onceEvents[key] = Append(@, fn)]
        ELSE [e2 EXCEPT !.onceEvents[key] = PriorityInsert(e2, @, fn, opts.priority)]

\* once(eventName, listener, options); name is the callable passed
once(e, key, name, opts) == OnceWith(e, key, Fn(name), opts)

\* { ...options, priority: (options?.priority ?? 0) + 1 }
Bumped(opts) == [opts EXCEPT !.given = TRUE, !.priority = @ + 1]

\* prependListener(eventName, listener, options): without options on a
\* plain key the listener goes to the front of the array, otherwise the
\* call is addListener with the priority raised by one
prependListener(e, key, name, opts) ==
    IF IsPattern(key) THEN addListener(e, key, name, Bumped(opts))
    ELSE IF ~opts.given THEN [e EXCEPT !.events[key] = <<Fn(name)>> \o @]
    ELSE addListener(e, key, name, Bumped(opts))

\* prependOnceListener(eventName, listener, options)
prependOnceListener(e, key, name, opts) ==
    IF ~opts.given THEN [e EXCEPT !.onceEvents[key] = <<Fn(name)>> \o @]
    ELSE once(e, key, name, Bumped(opts))

\* removeAllListeners() that forgets to reset this.events
removeAllListeners_KeepsEvents(e) ==
    [e EXCEPT !.wildcards = <<>>, !.anyListeners = <<>>, !.pipes = <<>>,
              !.flags = {}, !.onceEvents = EmptyStore,
              !.metadata = NoMetadata, !.hasMeta = FALSE]

\* removeAllListeners() with no event name: pending timers are not cleared
removeAllListeners(e) ==
    [e EXCEPT !.wildcards = <<>>, !.anyListeners = <<>>, !.pipes = <<>>,
              !.flags = {}, !.events = EmptyStore, !.onceEvents = EmptyStore,
              !.metadata = NoMetadata, !.hasMeta = FALSE]

\* helpers removeAllForEvent together with the caller's flags &= ~result.flags
removeAllForEvent(e, key) ==
    LET i == WildIndex(e.wildcards, key)
        e1 == IF i = 0 THEN e
              ELSE LET c == CleanupEach(e, e.wildcards[i].entries, 1)
                       w == RemoveAt(e.wildcards, i)
                   IN  [c EXCEPT !.wildcards = w,
                                 !.flags = IF w = <<>> THEN @ \ {HAS_WILDCARDS} ELSE @]
        e2 == [CleanupEach(e1, e1.events[key], 1) EXCEPT !.events[key] = <<>>]
    IN  [CleanupEach(e2, e2.onceEvents[key], 1) EXCEPT !.onceEvents[key] = <<>>]

\* The wildcard part of removeListener(key, fn): the entries of the pattern
\* are searched from the end; found tells whether the method returns there.
RemoveWildcard(e, key, fn) ==
    LET i == WildIndex(e.wildcards, key)
        entries == IF i = 0 THEN <<>> ELSE e.wildcards[i].entries
        hits == {j \in 1..Len(entries) : entries[j] = fn}
    IN  IF hits = {} THEN [found |-> FALSE, e |-> e]
        ELSE LET j == CHOOSE x \in hits : \A y \in hits : y <= x
                 rest == RemoveAt(entries, j)
                 c == cleanupListener(e, fn)
                 w == IF rest = <<>> THEN RemoveAt(e.wildcards, i)
                      ELSE [e.wildcards EXCEPT ![i].entries = rest]
             IN  [found |-> TRUE,
                  e |-> [c EXCEPT !.wildcards = w,
                                  !.flags = IF w = <<>> THEN @ \ {HAS_WILDCARDS} ELSE @]]

\* The regular-events part of removeListener(key, fn)
RemoveRegular(e, key, fn) ==
    LET l == e.events[key] IN
    IF l = <<>> THEN e
    ELSE IF IsFunction(l)
    THEN IF l[1] = fn
         THEN [cleanupListener(e, fn) EXCEPT !.events[key] = <<>>]
         ELSE e
    ELSE LET idx == IndexOf(l, fn) IN
         IF idx > 0
         THEN [cleanupListener(e, fn) EXCEPT !.events[key] = RemoveAt(l, idx)]
         ELSE IF e.hasMeta
         THEN LET hits == {i \in 1..Len(l) :
                              HasMetaFor(e, l[i]) /\ e.metadata[l[i]].original = fn}
              IN  IF hits = {} THEN e
                  ELSE LET i == CHOOSE x \in hits : \A y \in hits : y <= x
                       IN  [cleanupListener(e, l[i]) EXCEPT
                               !.events[key] = RemoveAt(l, i)]
         ELSE e

\* The once-events part of removeListener(key, fn)
RemoveOnce(e, key, fn) ==
    LET l == e.onceEvents[key] IN
    IF l = <<>> THEN e
    ELSE IF IsFunction(l)
    THEN IF l[1] = fn
         THEN [cleanupListener(e, fn) EXCEPT !.onceEvents[key] = <<>>]
         ELSE e
    ELSE LET idx == IndexOf(l, fn) IN
         IF idx > 0
         THEN [cleanupListener(e, fn) EXCEPT !.onceEvents[key] = RemoveAt(l, idx)]
         ELSE e

\* removeAllListeners(eventName): a falsy event name, the empty string
\* included, takes the branch that empties the whole registry
removeAllListenersOf(e, key) ==
    IF key = <<>> THEN removeAllListeners(e) ELSE removeAllForEvent(e, key)

\* removeListener(eventName, listener) with both arguments given
removeListener(e, key, fn) ==
    IF key = <<>> THEN removeAllListeners(e)
    ELSE LET w == RemoveWildcard(e, key, fn) IN
         IF w.found THEN w.e
         ELSE RemoveOnce(RemoveRegular(e, key, fn), key, fn)

pipe(e, target) ==
    [e EXCEPT !.pipes = Append(@, target), !.flags = @ \cup {HAS_PIPES}]

\* unpipe() with no argument
unpipeAll(e) == [e EXCEPT !.pipes = <<>>, !.flags = @ \ {HAS_PIPES}]

\* unpipe(target)
unpipe(e, target) ==
    LET i == IndexOf(e.pipes, target) IN
    IF i = 0 THEN e
    ELSE LET ps == RemoveAt(e.pipes, i)
         IN  [e EXCEPT !.pipes = ps,
                       !.flags = IF ps = <<>> THEN @ \ {HAS_PIPES} ELSE @]

\* destroy(): no cleanup interval is modelled
destroy(e) == removeAllListeners(e)

----------------------------------------------------------------------------
(* Promises. The table keeps, for every promise handed out, what the       *)
(* closures of the call that made it capture: the handler closures built   *)
(* (closures), race's handlers Map in insertion order (handlers), whether  *)
(* the call's timer is pending (timer), race's resolved flag; fired is the *)
(* history of which of the call's callbacks ran; will is, for a promise a  *)
(* listener returned, how it is going to settle; awaits is, for an         *)
(* emitAsync call, the promises its allSettled waits for.                  *)

NoValue == [event |-> <<>>, args |-> <<>>]

NewPromise(kind, keys, closures, handlers, armed, will) ==
    [kind |-> kind, keys |-> keys, closures |-> closures, handlers |-> handlers,
     state |-> "pending", value |-> NoValue, timer |-> armed, resolved |-> FALSE,
     fired |-> {}, will |-> will, awaits |-> {}]

\* resolve(value) and reject(error): a settled promise ignores both
Settle(e, p, state, value) ==
    IF e.promises[p].state # "pending" THEN e
    ELSE [e EXCEPT !.promises[p].state = state, !.promises[p].value = value]

\* The promise of the call that built handler closure l
PromiseOf(e, l) ==
    CHOOSE p \in 1..Len(e.promises) : l \in Range(e.promises[p].closures)

\* waitFor's handler: if (timer) clearTimeout(timer); resolve(args)
WaitForHandler(e, l, args) ==
    Settle([e EXCEPT !["promises"][PromiseOf(e, l)].timer = FALSE,
                     !["promises"][PromiseOf(e, l)].fired = @ \cup {"listener"}],
           PromiseOf(e, l), "resolved", [event |-> l.key, args |-> args])

\* waitFor's timer callback: removeListener(eventName, handler); reject(...)
WaitForTimeout(e, p) ==
    Settle(removeListener([e EXCEPT !.promises[p].timer = FALSE,
                                    !.promises[p].fired = @ \cup {"timer"}],
                          e.promises[p].keys[1], e.promises[p].closures[1]),
           p, "rejected", NoValue)

\* handlers.forEach((handler, eventName) => this.removeListener(eventName, handler))
RECURSIVE RemoveHandlers(_, _, _)
RemoveHandlers(e, hs, i) ==
    IF i > Len(hs) THEN e
    ELSE RemoveHandlers(removeListener(e, hs[i].key, hs[i].handler), hs, i + 1)

\* race's cleanup closure
cleanup(e, p) ==
    [RemoveHandlers([e EXCEPT !.promises[p].timer = FALSE],
                    e.promises[p].handlers, 1)
        EXCEPT !.promises[p].handlers = <<>>]

\* race's resolveWith closure, called by the handler of `event`
resolveWith(e, p, event, args) ==
    IF e.promises[p].resolved
    THEN [e EXCEPT !.promises[p].fired = @ \cup {"listener"}]
    ELSE Settle(cleanup([e EXCEPT !.promises[p].resolved = TRUE,
                                  !.promises[p].fired = @ \cup {"listener"}], p),
                p, "resolved", [event |-> event, args |-> args])

\* race's timer callback
RaceTimeout(e, p) ==
    IF e.promises[p].resolved
    THEN [e EXCEPT !.promises[p].timer = FALSE, !.promises[p].fired = @ \cup {"timer"}]
    ELSE Settle(cleanup([e EXCEPT !.promises[p].resolved = TRUE,
                                  !.promises[p].fired = @ \cup {"timer"}], p),
                p, "rejected", NoValue)

\* handlers.set(eventName, handler) on a Map kept in insertion order
MapSet(hs, key, h) ==
    IF \E i \in 1..Len(hs) : hs[i].key = key
    THEN [i \in 1..Len(hs) |-> IF hs[i].key = key THEN [key |-> key, handler |-> h]
                                ELSE hs[i]]
    ELSE Append(hs, [key |-> key, handler |-> h])

\* The handler closure number n, built for event name key
Handler(kind, n, key) == [fn |-> kind, wrap |-> 0 - n, key |-> key]

\* waitFor(eventName, timeout), up to the promise it returns
waitFor(e, key, timeout) ==
    OnceWith([e EXCEPT !.nwrap = @ + 1,
                       !.promises = Append(@, NewPromise("waitFor", <<key>>,
                                               <<Handler("waitFor", e.nwrap + 1, key)>>,
                                               <<>>, timeout > 0, "none"))],
             key, Handler("waitFor", e.nwrap + 1, key), NoOptions)

\* events.forEach(eventName => { handlers.set(...); this.once(...) }) of race
RECURSIVE RaceRegister(_, _, _, _)
RaceRegister(e, p, keys, i) ==
    IF i > Len(keys) THEN e
    ELSE RaceRegister(
             OnceWith([e EXCEPT !.nwrap = @ + 1,
                                !.promises[p].closures =
                                    Append(@, Handler("race", e.nwrap + 1, keys[i])),
                                !.promises[p].handlers =
                                    MapSet(@, keys[i], Handler("race", e.nwrap + 1, keys[i]))],
                      keys[i], Handler("race", e.nwrap + 1, keys[i]), NoOptions),
             p, keys, i + 1)

\* race(events, timeout), up to the promise it returns
race(e, keys, timeout) ==
    RaceRegister([e EXCEPT !.promises = Append(@, NewPromise("race", keys, <<>>, <<>>,
                                                              timeout > 0, "none"))],
                 Len(e.promises) + 1, keys, 1)

\* The key the callables that call back into the emitter use
ReentryKey == <<"a">>

\* What the body of callable l does to the emitter when called with args
Effect(e, l, args) ==
    CASE Behaviour(l.fn) = "stop" -> [e EXCEPT !.stopped = TRUE]
      [] Behaviour(l.fn) = "waitFor" -> WaitForHandler(e, l, args)
      [] Behaviour(l.fn) = "race" -> resolveWith(e, PromiseOf(e, l), l.key, args)
      [] Behaviour(l.fn) = "resolve" ->
            [e EXCEPT !.promises = Append(@, NewPromise("listener", <<>>, <<>>, <<>>,
                                                        FALSE, "resolved"))]
      [] Behaviour(l.fn) = "reject" ->
            [e EXCEPT !.promises = Append(@, NewPromise("listener", <<>>, <<>>, <<>>,
                                                        FALSE, "rejected"))]
      [] Behaviour(l.fn) = "once" -> OnceWith(e, ReentryKey, Fn("h"), NoOptions)
      [] Behaviour(l.fn) = "removeSelf" -> removeListener(e, ReentryKey, Fn(l.fn))
      [] Behaviour(l.fn) = "removeOther" -> removeListener(e, ReentryKey, Fn("f"))
      [] OTHER -> e

----------------------------------------------------------------------------
(* Emission Engine. An emission in progress is a record st: the emitter e, *)
(* the invocations made so far (calls) and whether an exception is         *)
(* propagating (threw).                                                    *)

Started(e) == [e |-> e, calls |-> <<>>, threw |-> FALSE]

\* [a, b, c, d, e].slice(0, al)
Slice5(args) == SubSeq(args, 1, Min(Len(args), 5))

\* A callable may emit from inside its body, so an invocation and emit call
\* each other
RECURSIVE emit(_, _, _)
RECURSIVE Reentry(_, _, _)
RECURSIVE RunOriginal(_, _, _, _)
RECURSIVE RunWrapper(_, _, _, _)
RECURSIVE Invoke(_, _, _, _)

\* The emission a callable makes from inside its body: the invocations it
\* causes follow the callable's own in the call log, and an exception
\* leaving the inner emit leaves the callable
Reentry(st, l, args) ==
    IF Behaviour(l.fn) = "emit" /\ Len(args) > 0 /\ args[1] > 0
    THEN LET r == emit(st.e, ReentryKey, <<args[1] - 1>>)
         IN  [e |-> r.st.e, calls |-> st.calls \o r.st.calls, threw |-> r.st.threw]
    ELSE st

\* A call of callable l: its body acts on the emitter, and it returns or throws
RunOriginal(st, l, phase, args) ==
    Reentry([st EXCEPT
                !.calls = Append(@, [l |-> l, fn |-> l.fn, phase |-> phase, args |-> args]),
                !.e = Effect(@, l, args),
                !.threw = Behaviour(l.fn) = "throw"],
            l, args)

\* The closure addListener builds for times > 0: it decrements the counter
\* in its metadata, removes itself when the counter reaches 0, then applies
\* the original. self.metadata!.get throws when the map is gone.
RunWrapper(st, l, phase, args) ==
    IF ~st.e.hasMeta THEN [st EXCEPT !.threw = TRUE]
    ELSE IF ~HasMetaFor(st.e, l) THEN RunOriginal(st, l, phase, args)
    ELSE RunOriginal(
             [st EXCEPT !.e =
                 IF st.e.metadata[l].times - 1 = 0
                 THEN removeListener([st.e EXCEPT !.metadata[l].times = 0], l.key, l)
                 ELSE [st.e EXCEPT !.metadata[l].times = @ - 1]],
             l, phase, args)

\* listener(...args)
Invoke(st, l, phase, args) ==
    IF l.wrap > 0 THEN RunWrapper(st, l, phase, args)
    ELSE RunOriginal(st, l, phase, args)

\* The loop over the array stored under key with every call inside a
\* try/catch that drops the exception
RECURSIVE RunRegularArray_Swallows(_, _, _, _, _)
RunRegularArray_Swallows(st, key, i, n, args) ==
    IF i > n THEN st
    ELSE IF i > Len(st.e.events[key]) THEN [st EXCEPT !.threw = TRUE]
    ELSE RunRegularArray_Swallows(
             [Invoke(st, st.e.events[key][i], "regular", args) EXCEPT !.threw = FALSE],
             key, i + 1, n, args)

\* for (let i = 0; i < n; i++) l[i](...) over the array stored under key:
\* n is read once, the array is the live object, which removeListener
\* splices in place; calling a missing element throws a TypeError.
RECURSIVE RunRegularArray(_, _, _, _, _)
RunRegularArray(st, key, i, n, args) ==
    IF st.threw \/ i > n THEN st
    ELSE LET arr == st.e.events[key] IN
         IF i > Len(arr) THEN [st EXCEPT !.threw = TRUE]
         ELSE RunRegularArray(Invoke(st, arr[i], "regular", args), key, i + 1, n, args)

\* The same loop over a once array, which emit detached before the loop
RECURSIVE RunDetached(_, _, _, _, _)
RunDetached(st, ls, i, phase, args) ==
    IF st.threw \/ i > Len(ls) THEN st
    ELSE RunDetached(Invoke(st, ls[i], phase, args), ls, i + 1, phase, args)

\* A once phase that detaches each listener just before its own call, so
\* that the listeners behind one that throws stay registered
RECURSIVE RunDetaching(_, _, _, _, _)
RunDetaching(st, key, ol, i, args) ==
    IF st.threw \/ i > Len(ol) THEN st
    ELSE RunDetaching(Invoke([st EXCEPT !.e = RemoveOnce(@, key, ol[i])],
                             ol[i], "once", args),
                      key, ol, i + 1, args)

RunOnce_DetachesEach(st, key, ol, filtered, args) ==
    IF ol = <<>> THEN st
    ELSE IF IsFunction(ol) /\ filtered /\ HAS_FILTERS \in st.e.flags
                           /\ ~checkFilter(st.e, ol[1], Slice5(args))
    THEN st
    ELSE RunDetaching(st, key, ol, 1, args)

\* The once phase with the order reversed: the listeners are invoked and
\* only then cleaned up and detached
RunOnce_InvokesFirst(st, key, ol, filtered, args) ==
    IF ol = <<>> THEN st
    ELSE IF IsFunction(ol) /\ filtered /\ HAS_FILTERS \in st.e.flags
                           /\ ~checkFilter(st.e, ol[1], Slice5(args))
    THEN st
    ELSE LET r == RunDetached(st, ol, 1, "once", args)
         IN  IF r.threw THEN r
             ELSE [r EXCEPT !.e = [CleanupEach(r.e, ol, 1) EXCEPT !.onceEvents[key] = <<>>]]

\* The once-listeners of key: cleaned up and detached, then invoked. Only
\* the single-function form reached from the single-regular-listener path
\* looks at the filter (filtered = TRUE there).
RunOnce(st, key, ol, filtered, args) ==
    IF ol = <<>> THEN st
    ELSE IF IsFunction(ol) /\ filtered /\ HAS_FILTERS \in st.e.flags
                           /\ ~checkFilter(st.e, ol[1], Slice5(args))
    THEN st
    ELSE RunDetached(
             [st EXCEPT !.e = [CleanupEach(st.e, ol, 1) EXCEPT !.onceEvents[key] = <<>>]],
             ol, 1, "once", args)

\* The wildcard listeners emitExtras invokes, in Map order then entry order
RECURSIVE MatchingEntries(_, _, _)
MatchingEntries(w, name, i) ==
    IF i > Len(w) THEN <<>>
    ELSE (IF PatternTest(w[i].pattern, name) THEN w[i].entries ELSE <<>>)
         \o MatchingEntries(w, name, i + 1)

RECURSIVE RunWildcards(_, _, _, _, _)
RunWildcards(st, ls, i, fl, args) ==
    IF st.threw \/ i > Len(ls) THEN st
    ELSE IF HAS_FILTERS \in fl /\ ~checkFilter(st.e, ls[i], args)
    THEN RunWildcards(st, ls, i + 1, fl, args)
    ELSE RunWildcards(Invoke(st, ls[i], "wildcard", args), ls, i + 1, fl, args)

\* p.emit(eventName, ...args) on each pipe target; a target is another
\* emitter, of which the model keeps only the calls it receives
RECURSIVE RunPipes(_, _, _, _, _)
RunPipes(st, ps, i, key, args) ==
    IF i > Len(ps) THEN st
    ELSE RunPipes([st EXCEPT !.calls = Append(@, [l |-> Fn(ps[i]), fn |-> ps[i],
                                                   phase |-> "pipe", args |-> args])],
                  ps, i + 1, key, args)

\* helpers emitExtras, loop by loop. `stopped` is the parameter's value
\* throughout, so the three loops never see a stopPropagation() made by a
\* listener they ran, and the value returned is the value passed in.
ExtrasWildcards(st, key, args, fl) ==
    IF HAS_WILDCARDS \in fl
    THEN RunWildcards(st, MatchingEntries(st.e.wildcards, key, 1), 1, fl, args)
    ELSE st

ExtrasAny(st, key, args, fl, stoppedArg) ==
    IF st.threw \/ stoppedArg \/ HAS_ANY \notin fl THEN st
    ELSE RunDetached(st, st.e.anyListeners, 1, "any", <<key>> \o args)

ExtrasPipes(st, key, args, fl, stoppedArg) ==
    IF st.threw \/ stoppedArg \/ HAS_PIPES \notin fl THEN st
    ELSE RunPipes(st, st.e.pipes, 1, key, args)

\* this.propagationStopped = result.propagationStopped
ExtrasResult(st, stoppedArg) ==
    IF st.threw THEN st ELSE [st EXCEPT !.e.stopped = stoppedArg]

emitExtras(st, key, args, fl, stoppedArg) ==
    ExtrasResult(
        ExtrasPipes(
            ExtrasAny(ExtrasWildcards(st, key, args, fl), key, args, fl, stoppedArg),
            key, args, fl, stoppedArg),
        stoppedArg)

Returned(st, ret) == [st |-> st, ret |-> ret]

\* The tail both paths of emit share: the propagation check, then emitExtras
EmitTail(st, key, args) ==
    IF st.threw THEN Returned(st, FALSE)
    ELSE IF st.e.stopped THEN Returned(st, TRUE)
    ELSE IF st.e.flags # {}
    THEN Returned(emitExtras(st, key, Slice5(args), st.e.flags, st.e.stopped), TRUE)
    ELSE Returned(st, TRUE)

\* emit with a single regular listener, after that listener's turn
EmitSingleRest(st, key, args) ==
    IF st.threw THEN Returned(st, FALSE)
    ELSE IF st.e.stopped THEN Returned(st, TRUE)
    ELSE EmitTail(RunOnce(st, key, st.e.onceEvents[key], TRUE, args), key, args)

\* The single regular listener's turn: the filter, then the call
EmitSingleFirst(st, l, args) ==
    IF HAS_FILTERS \in st.e.flags /\ ~checkFilter(st.e, l, Slice5(args))
    THEN st
    ELSE Invoke(st, l, "regular", args)

\* emit when events[key] is a single function
EmitSingle(e, key, args) ==
    EmitSingleRest(EmitSingleFirst(Started(e), e.events[key][1], args), key, args)

\* The once phase of emit's array path; ol was read before the regular loop
EmitManyOnce(st, key, ol, args) ==
    IF st.threw THEN st ELSE RunOnce(st, key, ol, FALSE, args)

\* emit when events[key] is an array or absent
EmitMany(e, key, args) ==
    IF /\ e.events[key] = <<>>
       /\ e.onceEvents[key] = <<>>
       /\ e.anyListeners = <<>>
       /\ e.pipes = <<>>
    THEN Returned(Started(e), FALSE)
    ELSE EmitTail(
             EmitManyOnce(
                 RunRegularArray(Started(e), key, 1, Len(e.events[key]), args),
                 key, e.onceEvents[key], args),
             key, args)

\* emit(eventName, ...args): [st, ret]; ret is meaningless when st.threw
emit(e, key, args) ==
    IF IsFunction(e.events[key]) THEN EmitSingle(e, key, args)
    ELSE EmitMany(e, key, args)

\* listeners(eventName)
listeners(e, key) ==
    e.events[key] \o e.onceEvents[key] \o MatchingEntries(e.wildcards, key, 1)

\* Number of listeners a store holds under the keys of set ks
RECURSIVE TotalStored(_, _)
TotalStored(store, ks) ==
    IF ks = {} THEN 0
    ELSE LET k == CHOOSE x \in ks : TRUE
         IN  Len(store[k]) + TotalStored(store, ks \ {k})

\* Number of entries in the wildcards Map from position i on
RECURSIVE TotalEntries(_, _)
TotalEntries(w, i) ==
    IF i > Len(w) THEN 0 ELSE Len(w[i].entries) + TotalEntries(w, i + 1)

\* listenerCount(eventName): a falsy event name, the empty string
\* included, yields the total over the whole registry
listenerCount(e, key) ==
    IF key = <<>>
    THEN Len(e.anyListeners) + TotalEntries(e.wildcards, 1)
            + TotalStored(e.events, StoreKeys) + TotalStored(e.onceEvents, StoreKeys)
    ELSE Len(e.events[key]) + Len(e.onceEvents[key])
            + Len(MatchingEntries(e.wildcards, key, 1))

\* meta?.original || listener
RawOf(e, l) ==
    IF HasMetaFor(e, l) /\ e.metadata[l].original # NoListener
    THEN e.metadata[l].original
    ELSE l

\* rawListeners(eventName)
rawListeners(e, key) ==
    [i \in 1..(Len(e.events[key]) + Len(e.onceEvents[key])) |->
        RawOf(e, (e.events[key] \o e.onceEvents[key])[i])]
        \o MatchingEntries(e.wildcards, key, 1)

\* The predicates an update may be given: "all" returns true for every
\* listener, "isF" for the callable f
PredicateAccepts(pred, l) == pred = "all" \/ (pred = "isF" /\ l = Fn("f"))

\* listeners.forEach(l => { if (predicate(l)) this.removeListener(eventName, l); })
RECURSIVE RemoveMatching(_, _, _, _, _)
RemoveMatching(e, key, ls, i, pred) ==
    IF i > Len(ls) THEN e
    ELSE RemoveMatching(IF PredicateAccepts(pred, ls[i]) THEN removeListener(e, key, ls[i])
                        ELSE e,
                        key, ls, i + 1, pred)

\* update(eventName, listener, options, predicate); pred = "none" when no
\* predicate is passed, and removeListener(eventName) is then
\* removeAllForEvent, or removeAllListeners() for the empty name
update(e, key, name, opts, pred) ==
    addListener(IF pred # "none" THEN RemoveMatching(e, key, listeners(e, key), 1, pred)
                ELSE IF key = <<>> THEN removeAllListeners(e)
                ELSE removeAllForEvent(e, key),
                key, name, opts)

\* The loop of emitAsync without its try/catch
RECURSIVE RunCaught_NoCatch(_, _, _, _)
RunCaught_NoCatch(st, ls, i, args) ==
    IF st.threw \/ i > Len(ls) THEN st
    ELSE RunCaught_NoCatch(Invoke(st, ls[i], "async", args), ls, i + 1, args)

\* The loop of emitAsync: each listener is called inside try/catch
RECURSIVE RunCaught(_, _, _, _)
RunCaught(st, ls, i, args) ==
    IF i > Len(ls) THEN st
    ELSE RunCaught([Invoke(st, ls[i], "async", args) EXCEPT !.threw = FALSE],
                   ls, i + 1, args)

\* emitAsync(eventName, ...args), up to the value its promise resolves to
emitAsync(e, key, args) ==
    IF /\ listeners(e, key) = <<>>
       /\ e.anyListeners = <<>>
       /\ e.pipes = <<>>
       /\ e.wildcards = <<>>
    THEN Returned(Started(e), FALSE)
    ELSE Returned(RunCaught(Started(e), listeners(e, key), 1, args), TRUE)

\* The promise an emitAsync call returns, when the call leaves its
\* synchronous part: made are the promises the listeners returned. An
\* exception leaving an async function rejects its promise; with none
\* collected the function returns at once, otherwise it awaits allSettled.
AsyncPromise(key, r, made) ==
    [NewPromise("emitAsync", <<key>>, <<>>, <<>>, FALSE, "none") EXCEPT
        !.awaits = made,
        !.state = IF r.st.threw THEN "rejected"
                  ELSE IF made = {} THEN "resolved" ELSE "pending",
        !.value = IF ~r.st.threw /\ made = {}
                  THEN [event |-> key, args |-> <<r.ret>>] ELSE NoValue]

\* emitAsync(eventName, ...args) as a call: the emitter and call log after
\* its synchronous part, with the promise it returns added to the table
EmitAsyncWith(e, key, r) ==
    [r EXCEPT !.st.e.promises =
        Append(@, AsyncPromise(key, r, (Len(e.promises) + 1)..Len(r.st.e.promises)))]

emitAsyncCall(e, key, args) == EmitAsyncWith(e, key, emitAsync(e, key, args))

----------------------------------------------------------------------------
(* The state machine: one emitter and the calls made on it *)

Cur ==
    [events |-> events, onceEvents |-> onceEvents, wildcards |-> wildcards,
     anyListeners |-> anyListeners, pipes |-> pipes, metadata |-> metadata,
     hasMeta |-> hasMeta, flags |-> flags, stopped |-> propagationStopped,
     timers |-> timers, ntimer |-> ntimer, nwrap |-> nwrap, promises |-> promises,
     now |-> now]

Commit(e) ==
    /\ events' = e.events
    /\ onceEvents' = e.onceEvents
    /\ wildcards' = e.wildcards
    /\ anyListeners' = e.anyListeners
    /\ pipes' = e.pipes
    /\ metadata' = e.metadata
    /\ hasMeta' = e.hasMeta
    /\ flags' = e.flags
    /\ propagationStopped' = e.stopped
    /\ timers' = e.timers
    /\ ntimer' = e.ntimer
    /\ nwrap' = e.nwrap
    /\ promises' = e.promises
    /\ now' = e.now

\* What the history keeps of the registry as an emission of key starts
Snapshot(e, key, el) ==
    [regular |-> e.events[key], once |-> e.onceEvents[key],
     wild |-> MatchingEntries(e.wildcards, key, 1), any |-> e.anyListeners,
     pipes |-> e.pipes, stopped |-> e.stopped, elapsed |-> el,
     nregs |-> Len(regs),
     pending |-> {p \in 1..Len(e.promises) : e.promises[p].state = "pending"}]

NoEmission ==
    [n |-> 0, op |-> "none", key |-> <<>>, args |-> <<>>, calls |-> <<>>,
     ret |-> FALSE, threw |-> FALSE, pre |-> [regular |-> <<>>, once |-> <<>>, wild |-> <<>>, any |-> <<>>,
                pipes |-> <<>>, stopped |-> FALSE, elapsed |-> {}, nregs |-> 0,
                pending |-> {}]]

\* Number of times listener l runs in a call log
CountCalls(calls, l) == Cardinality({i \in 1..Len(calls) : calls[i].l = l})

\* The history of a registry call (regs) keeps what was asked, the listener
\* stored, the timer armed for it, since then the emit(key) calls that
\* returned (emits) and the invocations of its listener (calls), whether
\* the call threw, and a view of what it did to its key.

\* new RegExp(...) in compilePattern throws a SyntaxError, which leaves
\* addWildcardListener and the registration call
Throws(op, key) ==
    /\ op \in {"on", "prependListener"}
    /\ IsPattern(key)
    /\ ~compilePattern(key).ok

\* fn is held under key: stored there itself, or wrapped there by the
\* closure of a `times` registration
HeldUnder(e, key, fn) ==
    \/ fn \in Range(e.events[key]) \cup Range(e.onceEvents[key])
    \/ \E w \in 1..Len(e.wildcards) :
          e.wildcards[w].pattern = key /\ fn \in Range(e.wildcards[w].entries)
    \/ \E l \in Range(e.events[key]) : l.wrap > 0 /\ Fn(l.fn) = fn

\* Number of listeners stored under key
StoredUnder(e, key) ==
    Len(e.events[key]) + Len(e.onceEvents[key])
        + (IF WildIndex(e.wildcards, key) = 0 THEN 0
           ELSE Len(e.wildcards[WildIndex(e.wildcards, key)].entries))

\* The entries of the wildcards Map whose pattern text is not key
OtherPatterns(w, key) ==
    LET Other(x) == x.pattern # key IN SelectSeq(w, Other)

\* Whether a call on key that took the emitter from e0 to e1 left alone
\* the listeners of every other key and pattern, the pipes and the
\* catch-all listeners
Frame(e0, e1, key) ==
    /\ \A k \in StoreKeys \ {key} :
          e1.events[k] = e0.events[k] /\ e1.onceEvents[k] = e0.onceEvents[k]
    /\ OtherPatterns(e1.wildcards, key) = OtherPatterns(e0.wildcards, key)
    /\ e1.pipes = e0.pipes
    /\ e1.anyListeners = e0.anyListeners

\* What the history keeps of a call on key for callable fn that took the
\* emitter from e0 to e1: whether anything changed, whether fn was held,
\* how many listeners key had, and the array `list` the call wrote, with
\* the priority of each of its elements; was is listeners(key) before the
\* call and pred the predicate an update was given
View(e0, e1, key, fn, list) ==
    [same |-> e1 = e0, held |-> HeldUnder(e0, key, fn),
     before |-> StoredUnder(e0, key), after |-> StoredUnder(e1, key),
     list |-> list, prio |-> [j \in 1..Len(list) |-> PriorityOf(e1, list[j])],
     was |-> listeners(e0, key), pred |-> "none", frame |-> Frame(e0, e1, key)]

NoView ==
    [same |-> TRUE, held |-> FALSE, before |-> 0, after |-> 0, list |-> <<>>,
     prio |-> <<>>, was |-> <<>>, pred |-> "none", frame |-> TRUE]

\* The listener addListener stores for a registration made in emitter e
StoredListener(e, key, name, opts) ==
    IF ~IsPattern(key) /\ opts.given /\ opts.times > 0
    THEN [fn |-> name, wrap |-> e.nwrap + 1, key |-> key]
    ELSE Fn(name)

Init ==
    /\ events = NewEmitter.events
    /\ onceEvents = NewEmitter.onceEvents
    /\ wildcards = NewEmitter.wildcards
    /\ anyListeners = NewEmitter.anyListeners
    /\ pipes = NewEmitter.pipes
    /\ metadata = NewEmitter.metadata
    /\ hasMeta = NewEmitter.hasMeta
    /\ flags = NewEmitter.flags
    /\ propagationStopped = NewEmitter.stopped
    /\ timers = NewEmitter.timers
    /\ ntimer = NewEmitter.ntimer
    /\ nwrap = NewEmitter.nwrap
    /\ promises = NewEmitter.promises
    /\ now = NewEmitter.now
    /\ sweeps = {}
    /\ regs = <<>>
    /\ elapsed = {}
    /\ last = NoEmission

\* What a registry call leaves: the emitter after it and its history
RegisteredAs(op, key, name, opts, l, e, view) ==
    /\ Commit(e)
    /\ regs' = Append(regs,
                 [op |-> op, key |-> key, fn |-> name, opts |-> opts, l |-> l,
                  timer |-> IF e.ntimer > ntimer THEN e.ntimer ELSE 0,
                  emits |-> 0, calls |-> 0, threw |-> Throws(op, key), view |-> view])
    /\ UNCHANGED <<sweeps, elapsed, last>>

Registered(op, key, name, opts, l, e) == RegisteredAs(op, key, name, opts, l, e, NoView)

\* emitter.on(key, name, opts)
On(key, name, opts) ==
    /\ Len(regs) < MaxRegs
    /\ Registered("on", key, name, opts, StoredListener(Cur, key, name, opts),
                  addListener(Cur, key, name, opts))

\* emitter.once(key, name, opts)
Once(key, name, opts) ==
    /\ Len(regs) < MaxRegs
    /\ Registered("once", key, name, opts, Fn(name), once(Cur, key, name, opts))

\* The history after an emission of key whose call log is calls; counts is
\* whether the emission counts as an emit(key) that returned
Counted(key, calls, counts) ==
    [i \in 1..Len(regs) |->
        [regs[i] EXCEPT
            !.emits = IF counts /\ regs[i].key = key THEN @ + 1 ELSE @,
            !.calls = @ + CountCalls(calls, regs[i].l)]]

\* What an emission leaves: the emitter after it and its history
Emitted(op, key, args, r) ==
    /\ Commit(r.st.e)
    /\ last' = [n |-> last.n + 1, op |-> op, key |-> key, args |-> args,
                calls |-> r.st.calls, ret |-> r.ret, threw |-> r.st.threw,
                pre |-> Snapshot(Cur, key, elapsed)]
    /\ regs' = Counted(key, r.st.calls, op = "emit" /\ ~r.st.threw)
    /\ UNCHANGED <<sweeps, elapsed>>

\* emitter.emit(key, ...args)
Emit(key, args) ==
    /\ last.n < MaxEmits
    /\ Emitted("emit", key, args, emit(Cur, key, args))

\* emitter.emitAsync(key, ...args)
EmitAsync(key, args) ==
    /\ last.n < MaxEmits
    /\ Emitted("emitAsync", key, args, emitAsync(Cur, key, args))

\* The timer with handle tid fires, if it is still pending
FireTimer(e, tid) ==
    IF \A t \in e.timers : t.id # tid THEN e
    ELSE LET t == CHOOSE x \in e.timers : x.id = tid
         IN  IF t.noop THEN [e EXCEPT !.timers = @ \ {t}]
             ELSE removeListener([e EXCEPT !.timers = @ \ {t}], t.key, t.l)

\* The ttl of registration i elapses: its timer, if still pending, fires.
\* The timer addListener and once arm calls removeListener(key, listener);
\* the one addWildcardListener arms calls () => {}.
Elapse(i) ==
    /\ i \in 1..Len(regs)
    /\ regs[i].opts.ttl > 0
    /\ i \notin elapsed
    /\ elapsed' = elapsed \cup {i}
    /\ Commit(FireTimer(Cur, regs[i].timer))
    /\ UNCHANGED <<sweeps, regs, last>>

\* emitter.pipe(target)
Pipe(target) ==
    /\ Len(pipes) < 1
    /\ Commit(pipe(Cur, target))
    /\ UNCHANGED <<sweeps, regs, elapsed, last>>

\* emitter.stopPropagation() called by the application between emissions
StopPropagation ==
    /\ ~propagationStopped
    /\ Commit([Cur EXCEPT !.stopped = TRUE])
    /\ UNCHANGED <<sweeps, regs, elapsed, last>>

\* emitter.pipe(target), kept in the history of registry calls
PipeTo(target) ==
    /\ Len(regs) < MaxRegs
    /\ Registered("pipe", <<>>, target, NoOptions, Fn(target), pipe(Cur, target))

\* emitter.unpipe(target)
Unpipe(target) ==
    /\ Len(regs) < MaxRegs + 1
    /\ Registered("unpipe", <<>>, target, NoOptions, Fn(target), unpipe(Cur, target))

\* emitter.unpipe()
UnpipeAll ==
    /\ Len(regs) < MaxRegs + 1
    /\ Registered("unpipeAll", <<>>, "", NoOptions, NoListener, unpipeAll(Cur))

\* emitter.destroy(), once the registrations have been made
Destroy ==
    /\ Len(regs) < MaxRegs + 1
    /\ Registered("destroy", <<>>, "", NoOptions, NoListener, destroy(Cur))

\* emitter.emitAsync(key, ...args), with the promise it returns
EmitAsyncCall(key, args) ==
    /\ last.n < MaxEmits
    /\ Emitted("emitAsync", key, args, emitAsyncCall(Cur, key, args))

\* A promise returned by a listener settles
SettleListener(p) ==
    /\ p \in 1..Len(promises)
    /\ promises[p].kind = "listener"
    /\ promises[p].state = "pending"
    /\ promises' = [promises EXCEPT ![p].state = promises[p].will]
    /\ UNCHANGED <<events, onceEvents, wildcards, anyListeners, pipes, metadata,
                   hasMeta, flags, propagationStopped, timers, ntimer, nwrap,
                   now, sweeps, regs, elapsed, last>>

\* await Promise.allSettled(promises) returns and emitAsync returns true
EmitAsyncResume(p) ==
    /\ p \in 1..Len(promises)
    /\ promises[p].kind = "emitAsync"
    /\ promises[p].state = "pending"
    /\ \A q \in promises[p].awaits : promises[q].state # "pending"
    /\ promises' = [promises EXCEPT ![p].state = "resolved",
                                    ![p].value = [event |-> promises[p].keys[1],
                                                  args |-> <<TRUE>>]]
    /\ UNCHANGED <<events, onceEvents, wildcards, anyListeners, pipes, metadata,
                   hasMeta, flags, propagationStopped, timers, ntimer, nwrap,
                   now, sweeps, regs, elapsed, last>>

\* emitter.waitFor(key, timeout)
WaitFor(key, timeout) ==
    /\ Len(promises) < MaxPromises
    /\ Commit(waitFor(Cur, key, timeout))
    /\ UNCHANGED <<sweeps, regs, elapsed, last>>

\* emitter.race(keys, timeout)
Race(keys, timeout) ==
    /\ Len(promises) < MaxPromises
    /\ Commit(race(Cur, keys, timeout))
    /\ UNCHANGED <<sweeps, regs, elapsed, last>>

\* The timer of the waitFor or race call that made promise p fires
PromiseTimeout(p) ==
    /\ p \in 1..Len(promises)
    /\ promises[p].timer
    /\ Commit(IF promises[p].kind = "waitFor" THEN WaitForTimeout(Cur, p)
              ELSE RaceTimeout(Cur, p))
    /\ UNCHANGED <<sweeps, regs, elapsed, last>>

\* Time passes by one unit; an interval that is due fires before more passes
Tick ==
    /\ now < MaxTime
    /\ now % AutoCleanupThreshold = 0 => (now = 0 \/ now \in sweeps)
    /\ Commit([Cur EXCEPT !.now = @ + 1])
    /\ UNCHANGED <<sweeps, regs, elapsed, last>>

\* The interval startAutoCleanup arms for an emitter constructed with
\* autoCleanup fires: its callback is () => {}, so the registry and the
\* metadata are left as they are
Sweep ==
    /\ now > 0
    /\ now % AutoCleanupThreshold = 0
    /\ now \notin sweeps
    /\ sweeps' = sweeps \cup {now}
    /\ Commit(Cur)
    /\ UNCHANGED <<regs, elapsed, last>>

\* emitter.on(pattern, name), for the specifications that register on
\* several patterns
OnPattern(key, name) ==
    /\ Len(regs) < MaxPatterns
    /\ IsPattern(key)
    /\ Registered("on", key, name, NoOptions, Fn(name),
                  addListener(Cur, key, name, NoOptions))

\* emitter.prependListener(key, name, opts)
PrependListener(key, name, opts) ==
    /\ Len(regs) < MaxRegs + 1
    /\ RegisteredAs("prependListener", key, name, opts,
                    IF opts.given \/ IsPattern(key)
                    THEN StoredListener(Cur, key, name, Bumped(opts)) ELSE Fn(name),
                    prependListener(Cur, key, name, opts),
                    View(Cur, prependListener(Cur, key, name, opts), key, Fn(name),
                         prependListener(Cur, key, name, opts).events[key]))

\* emitter.prependOnceListener(key, name, opts)
PrependOnceListener(key, name, opts) ==
    /\ Len(regs) < MaxRegs + 1
    /\ RegisteredAs("prependOnceListener", key, name, opts, Fn(name),
                    prependOnceListener(Cur, key, name, opts),
                    View(Cur, prependOnceListener(Cur, key, name, opts), key, Fn(name),
                         prependOnceListener(Cur, key, name, opts).onceEvents[key]))

\* emitter.removeListener(key, name)
RemoveListener(key, name) ==
    /\ Len(regs) < MaxRegs + 1
    /\ RegisteredAs("removeListener", key, name, NoOptions, Fn(name),
                    removeListener(Cur, key, Fn(name)),
                    View(Cur, removeListener(Cur, key, Fn(name)), key, Fn(name), <<>>))

\* emitter.update(key, name, opts, pred)
Update(key, name, opts, pred) ==
    /\ Len(regs) < MaxRegs + 1
    /\ RegisteredAs("update", key, name, opts, StoredListener(Cur, key, name, opts),
                    update(Cur, key, name, opts, pred),
                    [View(Cur, update(Cur, key, name, opts, pred), key, Fn(name),
                          listeners(update(Cur, key, name, opts, pred), key))
                        EXCEPT !.pred = pred])

\* emitter.removeListener(key, handler) by a caller that took the handler
\* of a pending waitFor or race from emitter.listeners(key)
RemoveHandler(key) ==
    /\ \E i \in 1..Len(onceEvents[key]) : onceEvents[key][i].wrap < 0
    /\ Commit(removeListener(Cur, key,
                 onceEvents[key][CHOOSE i \in 1..Len(onceEvents[key]) :
                                     onceEvents[key][i].wrap < 0]))
    /\ UNCHANGED <<sweeps, regs, elapsed, last>>

\* emitter.removeAllListeners(key)
RemoveAllFor(key) ==
    /\ Len(regs) < MaxRegs + 1
    /\ RegisteredAs("removeAllFor", key, "", NoOptions, NoListener,
                    removeAllListenersOf(Cur, key),
                    View(Cur, removeAllListenersOf(Cur, key), key, NoListener, <<>>))

\* emitter.removeAllListeners()
RemoveAll ==
    /\ Len(regs) < MaxRegs + 1
    /\ Registered("removeAll", <<>>, "", NoOptions, NoListener, removeAllListeners(Cur))

----------------------------------------------------------------------------
(* Specifications. Each draws the calls made on the emitter from the      *)
(* inputs one part of the engine is about.                                *)

\* Priority insertion and delivery order: on with and without a priority,
\* with and without a limit on the invocations
PriorityOptions ==
    {NoOptions, Options(-1, -1, 0, "none"), Options(1, -1, 0, "none"),
     Options(2, -1, 0, "none"), Options(0, 1, 0, "none"), Options(1, 1, 0, "none"),
     Options(0, 2, 0, "none")}

NextPriority ==
    \/ \E name \in Fns, opts \in PriorityOptions : On(<<"a">>, name, opts)
    \/ \E args \in {<<1>>} : Emit(<<"a">>, args)

SpecPriority == Init /\ [][NextPriority]_vars

\* Listener lifecycle: times, ttl, filter and once registrations, delivered
\* by emit and emitAsync
LifecycleOptions ==
    {NoOptions, Options(0, 1, 0, "none"), Options(1, 1, 0, "none"),
     Options(0, 2, 0, "none"), Options(0, -1, 1, "none"),
     Options(0, -1, 0, "nonzero")}

OnceOptions == {NoOptions, Options(1, -1, 0, "none"), Options(0, -1, 1, "none")}

NextLifecycle ==
    \/ \E name \in {"f", "g"}, opts \in LifecycleOptions : On(<<"a">>, name, opts)
    \/ \E name \in {"f", "g"}, opts \in OnceOptions : Once(<<"a">>, name, opts)
    \/ \E args \in ArgTuples : Emit(<<"a">>, args)
    \/ \E args \in ArgTuples : EmitAsync(<<"a">>, args)
    \/ \E i \in 1..MaxRegs : Elapse(i)

SpecLifecycle == Init /\ [][NextLifecycle]_vars

\* Phases of an emission: regular, once, wildcard listeners and pipes, with
\* a listener that stops propagation
PhaseOptions == {NoOptions, Options(0, -1, 1, "none")}

NextPhases ==
    \/ \E key \in AllKeys, name \in Fns, opts \in PhaseOptions : On(key, name, opts)
    \/ \E name \in {"g"} : Once(<<"a">>, name, NoOptions)
    \/ \E key \in Names, args \in {<<1>>} : Emit(key, args)
    \/ \E i \in 1..MaxRegs : Elapse(i)
    \/ \E target \in Targets : Pipe(target)
    \/ StopPropagation

SpecPhases == Init /\ [][NextPhases]_vars

\* Tearing down: listeners, wildcard listeners, pipes and pending timers,
\* then destroy, then emissions and the timers that were pending
DestroyOptions == {NoOptions, Options(0, -1, 1, "none"), Options(1, 1, 0, "none")}

NextDestroy ==
    \/ \E key \in {<<"a">>, <<"a", "*">>}, name \in {"f", "s"}, opts \in DestroyOptions :
           On(key, name, opts)
    \/ \E name \in {"g"} : Once(<<"a">>, name, NoOptions)
    \/ \E target \in Targets : PipeTo(target)
    \/ Destroy
    \/ \E args \in {<<1>>} : Emit(<<"a">>, args)
    \/ \E i \in 1..MaxRegs : Elapse(i)

SpecDestroy == Init /\ [][NextDestroy]_vars

\* Patterns: listeners on wildcard patterns, on the catch-all key and on
\* plain names, and emissions of the names
NextPatterns ==
    \/ \E key \in GlobPatterns \cup GlobNames \cup {CatchAll}, name \in {"f", "g"} :
           On(key, name, NoOptions)
    \/ \E key \in GlobNames, args \in {<<1>>} : Emit(key, args)

SpecPatterns == Init /\ [][NextPatterns]_vars

\* Piping: targets piped and unpiped, listeners on a name and on a pattern
\* that may stop propagation, and emissions with few and with many arguments
PipeTargets == {"t", "u"}
PipeArgs == {<<1>>, <<1, 2, 3, 4, 5, 6>>}

NextPipes ==
    \/ \E target \in PipeTargets : PipeTo(target)
    \/ \E target \in PipeTargets : Unpipe(target)
    \/ UnpipeAll
    \/ \E key \in {<<"a">>, <<"a", "*">>}, name \in {"f", "s"} : On(key, name, NoOptions)
    \/ \E key \in Names, args \in PipeArgs : Emit(key, args)

SpecPipes == Init /\ [][NextPipes]_vars

\* Failing listeners: listeners that throw or return a promise that
\* rejects, next to plain ones, in every phase, delivered by emit and emitAsync
ErrorFns == {"f", "x", "r"}

NextErrors ==
    \/ \E key \in {<<"a">>, <<"a", "*">>}, name \in ErrorFns : On(key, name, NoOptions)
    \/ \E name \in {"g"} : Once(<<"a">>, name, NoOptions)
    \/ \E target \in Targets : PipeTo(target)
    \/ \E args \in {<<1>>} : Emit(<<"a">>, args)
    \/ \E args \in {<<1>>} : EmitAsyncCall(<<"a">>, args)
    \/ \E p \in DOMAIN promises : SettleListener(p)
    \/ \E p \in DOMAIN promises : EmitAsyncResume(p)

SpecErrors == Init /\ [][NextErrors]_vars

\* Waiting for events: waitFor and race with and without a timeout, next
\* to a plain listener, with emit and emitAsync
Timeouts == {0, 1}
RaceLists == {<<<<"a">>, <<"b">>>>, <<<<"a">>, <<"a">>>>}

NextWait ==
    \/ \E timeout \in Timeouts : WaitFor(<<"a">>, timeout)
    \/ \E keys \in RaceLists, timeout \in Timeouts : Race(keys, timeout)
    \/ \E name \in {"f"} : On(<<"a">>, name, NoOptions)
    \/ \E key \in Names, args \in ArgTuples : Emit(key, args)
    \/ \E key \in Names, args \in ArgTuples : EmitAsync(key, args)
    \/ \E p \in 1..MaxPromises : PromiseTimeout(p)

SpecWait == Init /\ [][NextWait]_vars

\* Removal: listeners with a filter, a limit or a ttl, on names and on
\* patterns (one of them rejected by RegExp), removed one by one, by key
\* or all at once
RemovalOptions ==
    {NoOptions, Options(0, -1, 0, "nonzero"), Options(0, 2, 0, "none"),
     Options(0, -1, 1, "none")}

NextRemoval ==
    \/ \E key \in {<<"a">>, <<"a", "*">>, BadPattern}, name \in {"f", "g"},
          opts \in RemovalOptions : On(key, name, opts)
    \/ \E name \in {"g"} : Once(<<"a">>, name, NoOptions)
    \/ \E key \in {<<"a">>, <<"a", "*">>}, name \in {"f", "g"} : RemoveListener(key, name)
    \/ \E key \in {<<"a">>, <<"a", "*">>} : RemoveAllFor(key)
    \/ RemoveAll
    \/ \E target \in Targets : PipeTo(target)
    \/ \E target \in Targets : Unpipe(target)
    \/ \E args \in {<<1>>} : Emit(<<"a">>, args)
    \/ \E i \in 1..MaxRegs : Elapse(i)

SpecRemoval == Init /\ [][NextRemoval]_vars

\* Idle listeners: an emitter constructed with autoCleanup and threshold
\* AutoCleanupThreshold, listeners with and without metadata, emissions,
\* the clock and the cleanup interval. Time that is due passes and an
\* interval that is due fires, hence the fairness conditions.
NextSweep ==
    \/ \E name \in {"f", "g"}, opts \in {NoOptions, Options(0, -1, 0, "none")} :
           On(<<"a">>, name, opts)
    \/ \E args \in {<<1>>} : Emit(<<"a">>, args)
    \/ Tick
    \/ Sweep

SpecSweep == Init /\ [][NextSweep]_vars /\ WF_vars(Tick) /\ WF_vars(Sweep)

\* Prepending: listeners and once-listeners of several priorities, then a
\* listener prepended with and without options
PrependOptions == {NoOptions, Options(0, -1, 0, "none"), Options(1, -1, 0, "none")}

NextPrepend ==
    \/ \E name \in {"f", "g"}, opts \in {NoOptions, Options(1, -1, 0, "none"),
                                          Options(2, -1, 0, "none")} :
           On(<<"a">>, name, opts)
    \/ \E name \in {"g"}, opts \in {NoOptions, Options(2, -1, 0, "none")} :
           Once(<<"a">>, name, opts)
    \/ \E key \in {<<"a">>, <<"a", "*">>}, name \in {"h"}, opts \in PrependOptions :
           PrependListener(key, name, opts)
    \/ \E name \in {"h"}, opts \in PrependOptions : PrependOnceListener(<<"a">>, name, opts)
    \/ \E args \in {<<1>>} : Emit(<<"a">>, args)

SpecPrepend == Init /\ [][NextPrepend]_vars

\* Delivery order: listeners on two patterns that match `a` and on the
\* catch-all key, a regular listener, a once-listener and a pipe
NextOrder ==
    \/ \E key \in {<<"a", "*">>, StarA, CatchAll}, name \in {"f", "g", "h"} :
           OnPattern(key, name)
    \/ \E name \in {"f"} : On(<<"a">>, name, NoOptions)
    \/ \E name \in {"g"} : Once(<<"a">>, name, NoOptions)
    \/ \E target \in Targets : Pipe(target)
    \/ \E args \in {<<1>>} : Emit(<<"a">>, args)

SpecOrder == Init /\ [][NextOrder]_vars

\* Re-entrant once-listeners: once-listeners that emit the key again or
\* register another once-listener from inside their body, with and without
\* a ttl, next to a plain regular listener
ReentryOptions == {NoOptions, Options(0, -1, 1, "none")}

NextReentry ==
    \/ \E name \in {"e", "o", "g"}, opts \in ReentryOptions : Once(ReentryKey, name, opts)
    \/ \E name \in {"f"} : On(ReentryKey, name, NoOptions)
    \/ \E args \in ArgTuples : Emit(ReentryKey, args)
    \/ \E i \in 1..MaxRegs : Elapse(i)

SpecReentry == Init /\ [][NextReentry]_vars

\* Pattern keys in every registration method: on, once, prependListener
\* and prependOnceListener on a name and on a pattern that matches it
NextPatternOps ==
    \/ \E key \in {<<"a">>, <<"a", "*">>}, name \in {"f"} : On(key, name, NoOptions)
    \/ \E key \in {<<"a">>, <<"a", "*">>}, name \in {"g"} : Once(key, name, NoOptions)
    \/ \E key \in {<<"a">>, <<"a", "*">>}, name \in {"h"}, opts \in PrependOptions :
           PrependListener(key, name, opts)
    \/ \E key \in {<<"a">>, <<"a", "*">>}, name \in {"k"}, opts \in PrependOptions :
           PrependOnceListener(key, name, opts)
    \/ \E key \in {<<"a">>, <<"a", "*">>}, args \in {<<1>>} : Emit(key, args)

SpecPatternOps == Init /\ [][NextPatternOps]_vars

\* Limited listeners with a filter: times and filter together, alone on
\* the key or next to another listener, with arguments the filter accepts
\* and arguments it rejects
BudgetOptions == {NoOptions, Options(0, 1, 0, "nonzero"), Options(0, 2, 0, "nonzero")}

NextBudget ==
    \/ \E name \in {"f", "g"}, opts \in BudgetOptions : On(<<"a">>, name, opts)
    \/ \E args \in ArgTuples : Emit(<<"a">>, args)

SpecBudget == Init /\ [][NextBudget]_vars

\* Updating: listeners and once-listeners on a name, listeners on a pattern
\* that matches it, then update with and without a predicate
UpdateOptions == {NoOptions, Options(1, -1, 0, "none")}

NextUpdate ==
    \/ \E key \in {<<"a">>, <<"a", "*">>}, name \in {"f", "g"},
          opts \in {NoOptions, Options(0, 2, 0, "none")} : On(key, name, opts)
    \/ \E name \in {"g"} : Once(<<"a">>, name, NoOptions)
    \/ \E name \in {"f", "h"}, opts \in UpdateOptions, pred \in {"none", "all", "isF"} :
           Update(<<"a">>, name, opts, pred)
    \/ \E args \in {<<1>>} : Emit(<<"a">>, args)

SpecUpdate == Init /\ [][NextUpdate]_vars

\* Removal during delivery: listeners that remove themselves or another
\* listener from inside their body, and listeners limited to one invocation
NextSelfRemoval ==
    \/ \E name \in {"d", "k", "f", "g"}, opts \in {NoOptions, Options(0, 1, 0, "none")} :
           On(ReentryKey, name, opts)
    \/ \E name \in {"g"} : Once(ReentryKey, name, NoOptions)
    \/ \E args \in {<<1>>} : Emit(ReentryKey, args)

SpecSelfRemoval == Init /\ [][NextSelfRemoval]_vars

\* One callable registered several times: f on two names, with a filter,
\* a ttl, a priority or no options, as a listener and as a once-listener,
\* removed from one name, with emissions of both names
SharedOptions ==
    {NoOptions, Options(0, -1, 0, "nonzero"), Options(0, -1, 1, "none"),
     Options(1, -1, 0, "none")}

NextShared ==
    \/ \E key \in Names, name \in {"f"}, opts \in SharedOptions : On(key, name, opts)
    \/ \E name \in {"f"} : Once(<<"b">>, name, NoOptions)
    \/ \E name \in {"f"} : RemoveListener(<<"b">>, name)
    \/ \E key \in Names, args \in ArgTuples : Emit(key, args)
    \/ \E i \in 1..MaxRegs : Elapse(i)

SpecShared == Init /\ [][NextShared]_vars

\* Removal by key, the empty string included: listeners on a name, on
\* the empty string and on a pattern, a pipe, then removeListener and
\* removeAllListeners with a name or the empty string
NextEmptyKey ==
    \/ \E key \in {<<"a">>, <<"a", "*">>, EmptyName}, name \in {"f", "g"} :
           On(key, name, NoOptions)
    \/ \E name \in {"g"} : Once(<<"b">>, name, NoOptions)
    \/ \E target \in Targets : Pipe(target)
    \/ \E key \in {<<"a">>, EmptyName}, name \in {"f"} : RemoveListener(key, name)
    \/ \E key \in {<<"a">>, EmptyName} : RemoveAllFor(key)
    \/ \E args \in {<<1>>} : Emit(<<"a">>, args)

SpecEmptyKey == Init /\ [][NextEmptyKey]_vars

\* Failing once-listeners: once-listeners that throw next to plain ones,
\* with and without a priority, and a regular listener
NextOnceThrow ==
    \/ \E name \in {"x", "g", "f"}, opts \in {NoOptions, Options(1, -1, 0, "none")} :
           Once(<<"a">>, name, opts)
    \/ \E name \in {"f"} : On(<<"a">>, name, NoOptions)
    \/ \E args \in {<<1>>} : Emit(<<"a">>, args)

SpecOnceThrow == Init /\ [][NextOnceThrow]_vars

\* Waiting under removal: waitFor and race with and without a timeout,
\* emissions, and callers that remove the handler, the listeners of a key
\* or everything, or destroy the emitter. A timer that is armed fires,
\* hence the fairness condition.
NextSettle ==
    \/ \E timeout \in Timeouts : WaitFor(<<"a">>, timeout)
    \/ \E keys \in {<<<<"a">>, <<"b">>>>}, timeout \in Timeouts : Race(keys, timeout)
    \/ \E key \in Names, args \in {<<1>>} : Emit(key, args)
    \/ \E key \in Names : RemoveHandler(key)
    \/ \E key \in {<<"a">>} : Len(regs) < MaxRegs - 1 /\ RemoveAllFor(key)
    \/ Len(regs) < MaxRegs - 1 /\ RemoveAll
    \/ Len(regs) < MaxRegs - 1 /\ Destroy
    \/ \E p \in 1..MaxPromises : PromiseTimeout(p)

\* A timer is pending: this is ENABLED <<\E p : PromiseTimeout(p)>>_vars, the
\* step clearing promises[p].timer
TimerPending == \E p \in 1..Len(promises) : promises[p].timer

\* The event loop runs every timer that stays pending: weak fairness of the
\* timer callbacks, WF_vars(\E p : PromiseTimeout(p)), written out with
\* TimerPending for its ENABLED
SpecSettle ==
    /\ Init /\ [][NextSettle]_vars
    /\ \/ []<>(~TimerPending)
       \/ []<><<\E p \in 1..MaxPromises : PromiseTimeout(p)>>_vars

----------------------------------------------------------------------------
(* Vocabulary of the properties *)

\* The registrations that stored listener l
RegsOf(l) == {i \in 1..Len(regs) : regs[i].l = l}

\* Registration i is the only one of its listener, so that an invocation
\* of the listener is an invocation of this registration
Sole(i) == RegsOf(regs[i].l) = {i}

\* Positions of the last emission's call log at which listener l ran
CallsOf(l) == {c \in 1..Len(last.calls) : last.calls[c].l = l}

\* A listener of the last emission called stopPropagation()
StopperRan == \E c \in 1..Len(last.calls) : Behaviour(last.calls[c].fn) = "stop"

\* Registration i is an on() without times, ttl or filter
PlainOn(i) ==
    /\ regs[i].op = "on"
    /\ regs[i].opts.times = -1
    /\ regs[i].opts.ttl = 0
    /\ regs[i].opts.filter = "none"

\* l is registered under key in some collection of the registry
Registered_(l, key) ==
    \/ l \in Range(events[key])
    \/ l \in Range(onceEvents[key])
    \/ \E w \in 1..Len(wildcards) : wildcards[w].pattern = key /\ l \in Range(wildcards[w].entries)

----------------------------------------------------------------------------
(* Properties *)

\* C1: emit(key) invokes the regular listeners of key in descending order
\* of the priority they were registered with (no options counts as 0), and
\* listeners of equal priority in the order of their registration.
C1_DescendingStableOrder ==
    (last.op = "emit" /\ ~last.threw /\ ~StopperRan) =>
        \A c, d \in 1..Len(last.calls) : \A i, j \in 1..last.pre.nregs :
            (/\ c < d
             /\ last.calls[c].phase = "regular" /\ last.calls[d].phase = "regular"
             /\ i # j /\ Sole(i) /\ Sole(j)
             /\ regs[i].op = "on" /\ regs[j].op = "on"
             /\ regs[i].key = last.key /\ regs[j].key = last.key
             /\ regs[i].l = last.calls[c].l /\ regs[j].l = last.calls[d].l)
            => \/ regs[i].opts.priority > regs[j].opts.priority
               \/ regs[i].opts.priority = regs[j].opts.priority /\ i < j

\* C2: every registration of a callable on a key yields exactly one
\* invocation per emit of that key: when the key's registrations are plain
\* on() calls, emit invokes each callable as many times as it was registered
\* (on(k, h, {priority: 2}); on(k, g, {priority: 1}); emit(k) runs h, g).
C2_OneInvocationPerRegistration ==
    (/\ last.op = "emit" /\ ~last.threw /\ ~StopperRan
     /\ \A i \in 1..last.pre.nregs : regs[i].key = last.key => PlainOn(i))
    => \A name \in Fns :
          Cardinality({c \in 1..Len(last.calls) : last.calls[c].fn = name})
          = Cardinality({i \in 1..last.pre.nregs :
                            regs[i].key = last.key /\ regs[i].fn = name})

\* C3: a listener registered with on(key, f, {times: N}), N > 0, is invoked
\* at most N times, and exactly N times once N emit(key) calls have returned.
C3_TimesExactlyN ==
    \A i \in 1..Len(regs) :
        (/\ regs[i].op = "on" /\ ~IsPattern(regs[i].key)
         /\ regs[i].opts.times > 0 /\ regs[i].opts.ttl = 0
         /\ regs[i].opts.filter = "none")
        => /\ regs[i].calls <= regs[i].opts.times
           /\ regs[i].emits >= regs[i].opts.times => regs[i].calls = regs[i].opts.times

\* C4: a listener registered with once(key, h) is invoked at most once per
\* registration by emit and emitAsync, and after the emission that invoked
\* it it is no longer registered for key nor counted by listenerCount(key).
C4_OnceAtMostOnce ==
    \A i \in 1..Len(regs) :
        (regs[i].op = "once" /\ Sole(i) /\ regs[i].opts.ttl = 0)
        => /\ regs[i].calls <= 1
           /\ regs[i].calls >= 1 =>
                 /\ regs[i].l \notin Range(listeners(Cur, regs[i].key))
                 /\ listenerCount(Cur, regs[i].key)
                        = Cardinality({j \in 1..Len(regs) :
                              j # i /\ Registered_(regs[j].l, regs[j].key)
                                    /\ (regs[j].key = regs[i].key
                                        \/ (IsPattern(regs[j].key)
                                            /\ PatternTest(regs[j].key, regs[i].key)))})

\* C5: a listener registered with ttl = D > 0, on an exact key or on a
\* wildcard pattern, is removed when D has elapsed, and no emission that
\* starts after that invokes it.
C5_TtlRemoves ==
    \A i \in 1..Len(regs) :
        (regs[i].opts.given /\ regs[i].opts.ttl > 0 /\ Sole(i))
        => /\ i \in elapsed => ~Registered_(regs[i].l, regs[i].key)
           /\ i \in last.pre.elapsed => CallsOf(regs[i].l) = {}

\* C6: emit(key, ...args) returns false if and only if, when it is called,
\* key has no regular listener, no once-listener, no wildcard listener with
\* a matching pattern, and the emitter has no catch-all listener and no pipe.
C6_EmitReturnsHadListeners ==
    (last.op = "emit" /\ ~last.threw)
    => (last.ret = FALSE <=>
            /\ last.pre.regular = <<>>
            /\ last.pre.once = <<>>
            /\ last.pre.wild = <<>>
            /\ last.pre.any = <<>>
            /\ last.pre.pipes = <<>>)

\* C7: a listener registered on a wildcard pattern before an emission is
\* invoked by emit(name) whenever its pattern matches name, also when name
\* has no exact-key listener, no once-listener and the emitter has no pipe.
C7_MatchingWildcardInvoked ==
    (last.op = "emit" /\ ~last.threw /\ ~StopperRan /\ ~last.pre.stopped)
    => \A w \in 1..Len(last.pre.wild) :
          \E c \in CallsOf(last.pre.wild[w]) : last.calls[c].phase = "wildcard"

\* C8: when a listener calls stopPropagation() during an emit call, no
\* listener later in that call's resolution order is invoked and nothing is
\* forwarded to the pipes.
C8_StopSuppressesTheRest ==
    last.op = "emit"
    => \A c \in 1..Len(last.calls) :
          (Behaviour(last.calls[c].fn) = "stop" /\ last.calls[c].phase # "pipe")
          => c = Len(last.calls)

\* C9: a stopPropagation() made during or before one emit call has no effect
\* on a later emit call: an emit in which no listener stops propagation
\* delivers to every regular listener and every once-listener of its key.
C9_StopIsTransient ==
    (last.op = "emit" /\ ~last.threw /\ ~StopperRan)
    => /\ \A x \in 1..Len(last.pre.regular) :
             \E c \in CallsOf(last.pre.regular[x]) : last.calls[c].phase = "regular"
       /\ \A x \in 1..Len(last.pre.once) :
             \E c \in CallsOf(last.pre.once[x]) : last.calls[c].phase = "once"

\* C10: a regular listener registered with a filter is invoked by
\* emit(key, ...args) only if filter(args) is true, whether key has one
\* regular listener or several; the listeners without a filter still run.
C10_FilterDecidesInvocation ==
    (last.op = "emit" /\ ~last.threw)
    => \A i \in 1..last.pre.nregs :
          (/\ regs[i].op = "on" /\ regs[i].key = last.key /\ Sole(i)
           /\ regs[i].opts.times = -1 /\ regs[i].opts.ttl = 0
           /\ regs[i].l \in Range(last.pre.regular))
          => IF FilterAccepts(regs[i].opts.filter, last.args)
             THEN \E c \in CallsOf(regs[i].l) : last.calls[c].phase = "regular"
             ELSE CallsOf(regs[i].l) = {}

\* Closure c of the call that made promise p is attached to its event name
Attached(p, c) ==
    Registered_(promises[p].closures[c], promises[p].closures[c].key)

\* The last emission was an emission of key that promise p was pending for
EmittedFor(p, key) ==
    /\ last.op \in {"emit", "emitAsync"}
    /\ ~last.threw
    /\ p \in last.pre.pending
    /\ last.key = key

\* C11: waitFor(key, timeout) resolves with the arguments of the first
\* emission of key before the timeout and rejects at the timeout otherwise;
\* of its handler and its timer at most one fires, and once the promise is
\* settled the handler is no longer attached to key.
C11_WaitForSettlesOnce ==
    \A p \in 1..Len(promises) :
        promises[p].kind = "waitFor"
        => /\ Cardinality(promises[p].fired) <= 1
           /\ EmittedFor(p, promises[p].keys[1])
                 => /\ promises[p].state = "resolved"
                    /\ promises[p].value.args = last.args
           /\ "timer" \in promises[p].fired => promises[p].state = "rejected"
           /\ promises[p].state # "pending" => ~Attached(p, 1)

\* C12: race(keys, timeout) resolves with {event, args} of the candidate key
\* emitted first; once it has resolved or timed out, none of the handlers it
\* registered is attached to a candidate key and its timer is cancelled.
C12_RaceFirstWins ==
    \A p \in 1..Len(promises) :
        promises[p].kind = "race"
        => /\ (\E k \in Range(promises[p].keys) : EmittedFor(p, k))
                 => /\ promises[p].state = "resolved"
                    /\ promises[p].value = [event |-> last.key, args |-> last.args]
           /\ promises[p].state # "pending"
                 => /\ ~promises[p].timer
                    /\ \A c \in 1..Len(promises[p].closures) : ~Attached(p, c)

\* The last emission was an emit made after destroy() with no registration
\* in between
AfterDestroy ==
    /\ last.op = "emit"
    /\ last.pre.nregs > 0
    /\ regs[last.pre.nregs].op = "destroy"

\* C13: after destroy(), with no registration in between, every emit returns
\* false and invokes no listener, whatever was registered before.
C13_DestroyedEmitterIsSilent ==
    AfterDestroy => /\ ~last.threw
                    /\ last.ret = FALSE
                    /\ last.calls = <<>>

\* An emit after destroy() of a key that had a listener before destroy()
C13_Witness ==
    /\ AfterDestroy
    /\ last.pre.nregs > 1
    /\ regs[1].op \in {"on", "once"}
    /\ regs[1].key = last.key
    /\ last.ret = FALSE

\* C14: a listener registered on the catch-all key '*' is invoked on every
\* emission, whatever the key, with the key prepended to the arguments;
\* stated for the emissions that emit reports as having had listeners.
C14_CatchAllGetsKeyAndArgs ==
    (last.op = "emit" /\ ~last.threw /\ last.ret)
    => \A i \in 1..last.pre.nregs :
          (regs[i].op = "on" /\ regs[i].key = CatchAll)
          => \E c \in CallsOf(regs[i].l) :
                last.calls[c].args = <<last.key>> \o last.args

\* The matching the documentation describes, from position i of pattern p
\* and position j of name n: `**` matches any run of characters, `*` a run
\* without '.', `?` exactly one character, any other character itself.
RECURSIVE GlobMatch(_, _, _, _)
GlobMatch(p, i, n, j) ==
    IF i > Len(p) THEN j > Len(n)
    ELSE IF p[i] = "*" /\ i < Len(p) /\ p[i + 1] = "*"
         THEN \E k \in j..(Len(n) + 1) : GlobMatch(p, i + 2, n, k)
    ELSE IF p[i] = "*"
         THEN \E k \in j..(Len(n) + 1) :
                 /\ \A x \in j..(k - 1) : n[x] # "."
                 /\ GlobMatch(p, i + 1, n, k)
    ELSE IF p[i] = "?" THEN j <= Len(n) /\ GlobMatch(p, i + 1, n, j + 1)
    ELSE j <= Len(n) /\ n[j] = p[i] /\ GlobMatch(p, i + 1, n, j + 1)

\* The patterns registered in the wildcards Map
RegisteredPatterns == {wildcards[w].pattern : w \in 1..Len(wildcards)}

HasDoubleStar(p) == \E i \in 1..(Len(p) - 1) : p[i] = "*" /\ p[i + 1] = "*"

HasQuestion(p) == \E i \in 1..Len(p) : p[i] = "?"

\* C15: in a registered pattern with single `*` only, `*` matches exactly
\* the runs of characters without '.', and every other character of the
\* pattern, '.' included, matches only itself.
C15_SingleStarStaysInSegment ==
    \A p \in RegisteredPatterns : \A n \in GlobNames :
        (~HasDoubleStar(p) /\ ~HasQuestion(p) /\ p # CatchAll)
        => (PatternTest(p, n) <=> GlobMatch(p, 1, n, 1))

\* C16: in a registered pattern `**` matches any sequence of characters,
\* '.' included: the pattern matches every name the documented matching
\* accepts (`u.**` matches `u.c.e`).
C16_DoubleStarCrossesSeparators ==
    \A p \in RegisteredPatterns : \A n \in GlobNames :
        (HasDoubleStar(p) /\ GlobMatch(p, 1, n, 1)) => PatternTest(p, n)

\* C17: in a registered pattern `?` matches exactly one character: p?q
\* matches a name iff the name is p, one character, q.
C17_QuestionMarkIsOneCharacter ==
    \A p \in RegisteredPatterns : \A n \in GlobNames :
        (HasQuestion(p) /\ ~HasDoubleStar(p))
        => (PatternTest(p, n) <=> GlobMatch(p, 1, n, 1))

\* The pipe registrations of target t that are in force after the first n
\* registry calls: those not followed by unpipe(t) or unpipe()
PipedAt(n, t) ==
    {i \in 1..n :
        /\ regs[i].op = "pipe" /\ regs[i].fn = t
        /\ \A j \in (i + 1)..n :
              /\ ~(regs[j].op = "unpipe" /\ regs[j].fn = t)
              /\ regs[j].op \notin {"unpipeAll", "destroy"}}

\* C18: an emit that no listener stops calls target.emit(key, ...args), with
\* the same arguments, exactly once per pipe registration in force; a target
\* that was unpiped, and after unpipe() every target, is not called.
C18_PipeForwardsOncePerRegistration ==
    (last.op = "emit" /\ ~last.threw /\ ~StopperRan /\ ~last.pre.stopped)
    => \A t \in PipeTargets :
          /\ Cardinality({c \in 1..Len(last.calls) :
                             /\ last.calls[c].phase = "pipe"
                             /\ last.calls[c].fn = t
                             /\ last.calls[c].args = last.args})
                = Cardinality(PipedAt(last.pre.nregs, t))
          /\ \A c \in 1..Len(last.calls) :
                (last.calls[c].phase = "pipe" /\ last.calls[c].fn = t)
                => last.calls[c].args = last.args

\* The list emitAsync resolves as the last emission starts
ResolvedList == last.pre.regular \o last.pre.once \o last.pre.wild

\* C19: emitAsync never rejects because of a listener: when a listener
\* throws or returns a promise that rejects, every listener of the resolved
\* list is still invoked, in order, and the promise of emitAsync resolves to
\* true, and only after every promise a listener returned has settled.
C19_EmitAsyncNeverRejects ==
    /\ last.op = "emitAsync"
          => /\ ~last.threw
             /\ Len(last.calls) = Len(ResolvedList)
             /\ \A c \in 1..Len(last.calls) : last.calls[c].l = ResolvedList[c]
    /\ \A p \in 1..Len(promises) :
          promises[p].kind = "emitAsync"
          => /\ promises[p].state # "rejected"
             /\ promises[p].state = "resolved"
                   => \A q \in promises[p].awaits : promises[q].state # "pending"
             /\ (promises[p].state = "resolved" /\ promises[p].awaits # {})
                   => promises[p].value.args = <<TRUE>>

\* emitAsync has resolved after a listener threw, a later listener ran and
\* a promise returned by a listener rejected
C19_Witness ==
    /\ last.op = "emitAsync"
    /\ \E c \in 1..(Len(last.calls) - 1) : Behaviour(last.calls[c].fn) = "throw"
    /\ \E p \in 1..Len(promises) :
          /\ promises[p].kind = "emitAsync"
          /\ promises[p].state = "resolved"
          /\ \E q \in promises[p].awaits : promises[q].state = "rejected"

\* C20: when a regular listener throws during emit, the exception leaves
\* emit and no listener later in the resolution order is invoked.
C20_ThrowAbortsEmit ==
    last.op = "emit"
    => \A c \in 1..Len(last.calls) :
          (/\ last.calls[c].phase = "regular"
           /\ last.calls[c].l.wrap = 0
           /\ Behaviour(last.calls[c].fn) = "throw")
          => /\ c = Len(last.calls)
             /\ last.threw

\* An emit in which a regular listener threw while later regular listeners,
\* a once-listener or a pipe were still to come
C20_Witness ==
    /\ last.op = "emit"
    /\ last.threw
    /\ last.calls # <<>>
    /\ last.calls[Len(last.calls)].phase = "regular"
    /\ Behaviour(last.calls[Len(last.calls)].fn) = "throw"
    /\ \/ Len(last.pre.regular) > Len(last.calls)
       \/ last.pre.once # <<>>
       \/ last.pre.pipes # <<>>

\* The listeners stored in the registry
AllStored ==
    UNION {Range(events[k]) \cup Range(onceEvents[k]) : k \in StoreKeys}
        \cup UNION {Range(wildcards[w].entries) : w \in 1..Len(wildcards)}
        \cup Range(anyListeners)

\* C21: in every state each feature flag is set iff its collection is not
\* empty: HAS_WILDCARDS iff a wildcard entry is registered, HAS_PIPES iff a
\* target is piped, HAS_ANY iff a catch-all listener is registered,
\* HAS_FILTERS iff a registered listener has a filter.
C21_FlagsMatchCollections ==
    /\ HAS_WILDCARDS \in flags <=> wildcards # <<>>
    /\ HAS_PIPES \in flags <=> pipes # <<>>
    /\ HAS_ANY \in flags <=> anyListeners # <<>>
    /\ HAS_FILTERS \in flags
          <=> \E l \in AllStored : HasMetaFor(Cur, l) /\ metadata[l].filter # "none"

\* C22: registration and removal are total: on, once and the prepend
\* variants succeed for every key and pattern, and removeListener(key, f),
\* when f is not held under key (neither stored there nor wrapped there),
\* raises nothing and leaves the emitter as it was.
C22_RegistrationAndRemovalAreTotal ==
    \A i \in 1..Len(regs) :
        /\ regs[i].op \in {"on", "once", "prependListener", "prependOnceListener"}
              => ~regs[i].threw
        /\ (regs[i].op = "removeListener" /\ ~regs[i].view.held)
              => (~regs[i].threw /\ regs[i].view.same)

\* Callable name is stored with metadata whose last access is older than
\* the threshold
Stale(name) ==
    /\ Fn(name) \in AllStored
    /\ HasMetaFor(Cur, Fn(name))
    /\ now - metadata[Fn(name)].lastAccess > AutoCleanupThreshold

\* C23: with autoCleanup enabled, a registered listener that has metadata
\* and whose last access is older than the threshold is eventually removed
\* from the registry.
C23_StaleListenerIsSwept ==
    \A name \in {"f", "g"} : Stale(name) ~> (Fn(name) \notin AllStored)

\* The listeners a call log invoked, with their arguments, in call order
Invocations(calls) ==
    [c \in 1..Len(calls) |-> [l |-> calls[c].l, args |-> calls[c].args]]

\* No listener of the call log called stopPropagation()
NoStopIn(calls) == \A c \in 1..Len(calls) : Behaviour(calls[c].fn) # "stop"

\* Emission s and emission a invoked the same listeners with the same
\* arguments in the same order and returned the same boolean
SameDelivery(s, a) ==
    /\ Invocations(a.st.calls) = Invocations(s.st.calls)
    /\ a.ret = s.ret

\* C24: in the same registry state emitAsync(key, ...args) invokes the same
\* listeners as emit(key, ...args), in the same order, and returns the same
\* boolean, when emit returns and no listener stops propagation.
C24_EmitAsyncDeliversAsEmit ==
    \A key \in Names, args \in ArgTuples :
        (~emit(Cur, key, args).st.threw /\ NoStopIn(emit(Cur, key, args).st.calls))
        => SameDelivery(emit(Cur, key, args), emitAsync(Cur, key, args))

\* C25: a key that holds one listener behaves as a key that holds several:
\* removeListener(key, f) removes a listener whenever f is held under key,
\* by identity or as the original callback of a times-wrapped listener.
C25_OneOrManyBehaveAlike ==
    \A i \in 1..Len(regs) :
        (regs[i].op = "removeListener" /\ regs[i].view.held)
        => regs[i].view.after < regs[i].view.before

\* In the array a prepend call wrote, the listener it stored stands at pos
\* as an insertion of priority p + 1 would have it: ahead of the listeners
\* of priority <= p, behind the listeners of priority > p + 1
PlacedAsPriority(v, l, p, pos) ==
    /\ v.list[pos] = l
    /\ \A j \in 1..Len(v.list) :
          v.list[j] # l => /\ v.prio[j] <= p => pos < j
                           /\ v.prio[j] > p + 1 => j < pos

\* C26: prependListener(key, f, options) and prependOnceListener place f as
\* a priority insertion of priority p + 1 does, p being the priority
\* supplied (0 when omitted).
C26_PrependIsPriorityPlusOne ==
    \A i \in 1..Len(regs) :
        (/\ regs[i].op \in {"prependListener", "prependOnceListener"}
         /\ ~IsPattern(regs[i].key))
        => \E pos \in 1..Len(regs[i].view.list) :
              PlacedAsPriority(regs[i].view, regs[i].l, regs[i].opts.priority, pos)

\* C27: every removal path cancels the pending TTL timer of the listener it
\* removes: a timer that is still pending belongs to a registration whose
\* listener is still in the registry.
C27_RemovalCancelsTimer ==
    \A i \in 1..Len(regs) :
        (/\ regs[i].timer > 0
         /\ Sole(i)
         /\ \E t \in timers : t.id = regs[i].timer)
        => Registered_(regs[i].l, regs[i].key)

\* C28: every listener emit(key, a1..an) invokes, and the emit of every
\* pipe target, receives exactly the n emitted arguments in order, for
\* every n (catch-all listeners receive the key as well and are left out).
C28_EveryListenerGetsAllArguments ==
    last.op = "emit"
    => \A c \in 1..Len(last.calls) :
          last.calls[c].phase # "any" => last.calls[c].args = last.args

\* The place of a phase in the order regular, once, wildcard, catch-all, pipe
PhaseRank(phase) ==
    CASE phase = "regular" -> 1
      [] phase = "once" -> 2
      [] phase = "wildcard" -> 3
      [] phase = "any" -> 4
      [] OTHER -> 5

\* Call c of the last emission ran a listener that was registered on the
\* catch-all key and nowhere else
CatchAllCall(c) ==
    /\ last.calls[c].phase \in {"wildcard", "any"}
    /\ \E i \in 1..last.pre.nregs :
          Sole(i) /\ regs[i].key = CatchAll /\ regs[i].l = last.calls[c].l

\* The phase call c belongs to, a catch-all listener being of the
\* catch-all phase
RankOfCall(c) ==
    IF CatchAllCall(c) THEN PhaseRank("any") ELSE PhaseRank(last.calls[c].phase)

\* C29: within one emit the phases run in the order regular listeners,
\* once-listeners, wildcard-matching listeners, catch-all listeners, pipe
\* forwarding: no call of a later phase precedes a call of an earlier one.
C29_PhasesRunInOrder ==
    last.op = "emit"
    => \A c, d \in 1..Len(last.calls) : c < d => RankOfCall(c) <= RankOfCall(d)

\* C30: the wildcard listeners whose patterns match the emitted name are
\* invoked in the order of their registration, across all patterns.
C30_WildcardsInRegistrationOrder ==
    last.op = "emit"
    => \A c, d \in 1..Len(last.calls) : \A i, j \in 1..last.pre.nregs :
          (/\ c < d
           /\ last.calls[c].phase = "wildcard" /\ last.calls[d].phase = "wildcard"
           /\ Sole(i) /\ Sole(j)
           /\ IsPattern(regs[i].key) /\ IsPattern(regs[j].key)
           /\ regs[i].l = last.calls[c].l /\ regs[j].l = last.calls[d].l)
          => i < j

\* Number of occurrences of x in sequence s
Occurrences(s, x) == Cardinality({i \in 1..Len(s) : s[i] = x})

\* C31: a once-listener is detached (metadata purged, ttl timer cancelled)
\* before emit invokes it: an emit of the same key made from inside it does
\* not invoke it again, and a once() registration it makes for the same key
\* from inside its body is kept and fires on the next emission.
C31_OnceDetachedBeforeInvocation ==
    /\ (last.op = "emit" /\ ~last.threw) =>
          /\ \A name \in {"e", "o", "g"} :
                CountCalls(last.calls, Fn(name)) = Occurrences(last.pre.once, Fn(name))
          /\ Fn("h") \in Range(last.pre.once) => CallsOf(Fn("h")) # {}
          /\ \A c \in CallsOf(Fn("o")) :
                (\A d \in CallsOf(Fn("h")) : d < c) => Fn("h") \in Range(onceEvents[last.key])
    /\ \A i \in 1..Len(regs) :
          (regs[i].op = "once" /\ Sole(i) /\ regs[i].calls > 0)
          => /\ regs[i].l \notin DOMAIN metadata
             /\ \A t \in timers : t.id # regs[i].timer

\* A once-listener registered h from inside its body, a second one, with a
\* ttl, then emitted the key again from inside its body, and that inner
\* emission invoked h and nothing else
C31_Witness ==
    /\ last.op = "emit"
    /\ \E c \in CallsOf(Fn("e")) : last.calls[c].phase = "once" /\ last.calls[c].args = <<1>>
    /\ CallsOf(Fn("o")) # {}
    /\ \E c \in CallsOf(Fn("h")) : last.calls[c].args = <<0>>
    /\ \E i \in 1..Len(regs) : regs[i].fn = "e" /\ regs[i].timer > 0 /\ regs[i].calls > 0

\* C32: for every registration method (on, once, prependListener,
\* prependOnceListener) a key containing `*` or `?` is registered as a
\* wildcard pattern: the listener is invoked by the emission of a name the
\* pattern matches, emit taking its own key as a literal name.
C32_PatternKeysRegisterWildcards ==
    (last.op = "emit" /\ ~last.threw /\ last.n = 1 /\ ~IsPattern(last.key)) =>
        \A i \in 1..last.pre.nregs :
            (/\ regs[i].op \in {"on", "once", "prependListener", "prependOnceListener"}
             /\ IsPattern(regs[i].key) /\ PatternTest(regs[i].key, last.key)
             /\ Sole(i))
            => CallsOf(regs[i].l) # {}

\* C33: a listener registered with times = N and a filter spends one of its
\* N invocations on every emission that selects it, whether the filter
\* accepts the arguments or not: it is never invoked by an emission later
\* than the N-th emit of its key since its registration.
C33_RejectedEmissionConsumesBudget ==
    last.op = "emit" =>
        \A i \in 1..last.pre.nregs :
            (/\ regs[i].op = "on" /\ regs[i].key = last.key /\ Sole(i)
             /\ regs[i].opts.times > 0 /\ regs[i].opts.filter # "none"
             /\ CallsOf(regs[i].l) # {})
            => regs[i].emits <= regs[i].opts.times

\* The listeners of sequence s other than l that predicate pred does not accept
KeptOf(s, l, pred) ==
    LET Keeps(x) == x # l /\ ~PredicateAccepts(pred, x) IN SelectSeq(s, Keeps)

\* C34: update(key, l, options) without a predicate leaves l as the only
\* listener registered under key; with a predicate, no listener for which
\* it returned true remains in listeners(key), the listeners for which it
\* returned false are kept in their order, and l is registered.
C34_UpdateReplacesListeners ==
    \A i \in 1..Len(regs) :
        regs[i].op = "update" =>
            LET v == regs[i].view
                l == regs[i].l
            IN  /\ l \in Range(v.list)
                /\ v.pred = "none" => v.after = 1
                /\ v.pred # "none" =>
                      /\ \A x \in Range(v.was) :
                            (PredicateAccepts(v.pred, x) /\ x # l) => x \notin Range(v.list)
                      /\ KeptOf(v.list, l, v.pred) = KeptOf(v.was, l, v.pred)

\* C35: in every state and for every key, listenerCount(key) is the length
\* of listeners(key) and of rawListeners(key); both lists are in the order
\* regular, once, wildcard-matching; and rawListeners(key) is listeners(key)
\* with each times-wrapped listener replaced by its original callback.
C35_CountAndListsAgree ==
    \A key \in Names \cup {EmptyName} :
        LET ls == listeners(Cur, key)
            raw == rawListeners(Cur, key)
        IN  /\ listenerCount(Cur, key) = Len(ls)
            /\ Len(raw) = Len(ls)
            /\ ls = events[key] \o onceEvents[key] \o MatchingEntries(wildcards, key, 1)
            /\ \A i \in 1..Len(ls) :
                  raw[i] = IF ls[i].wrap > 0 THEN Fn(ls[i].fn) ELSE ls[i]

\* C36: removing a listener of a key while the key is being emitted (a
\* listener removing itself or another one, a times-listener removing
\* itself on its last invocation) does not disturb the delivery: emit
\* does not throw, and a listener that was registered when emit started
\* and that nothing removes (g, registered without a limit) is invoked
\* exactly once.
C36_RemovalDuringEmitIsSafe ==
    last.op = "emit" =>
        /\ ~last.threw
        /\ \A i \in 1..last.pre.nregs :
              (/\ regs[i].fn = "g" /\ regs[i].key = last.key /\ Sole(i)
               /\ ~regs[i].opts.given
               /\ regs[i].l \in Range(last.pre.regular) \cup Range(last.pre.once))
              => CountCalls(last.calls, regs[i].l) = 1

\* Registration i is the only on() or once() made on its key among the
\* first n registry calls
AloneOnKey(i, n) ==
    \A j \in 1..n :
        (regs[j].op \in {"on", "once"} /\ regs[j].key = regs[i].key) => j = i

\* C37: the options of a registration stay in effect while it exists,
\* whatever happens to other registrations of the same callable: a
\* listener registered alone on its key with a filter is not invoked with
\* arguments the filter rejects, and one registered with a ttl is no
\* longer registered once the ttl has elapsed.
C37_OptionsBelongToRegistration ==
    /\ last.op = "emit" =>
          \A i \in 1..last.pre.nregs :
              (/\ regs[i].op = "on" /\ regs[i].key = last.key
               /\ AloneOnKey(i, last.pre.nregs)
               /\ regs[i].opts.filter # "none"
               /\ ~FilterAccepts(regs[i].opts.filter, last.args))
              => CallsOf(regs[i].l) = {}
    /\ \A i \in 1..Len(regs) :
          (/\ regs[i].op = "on" /\ AloneOnKey(i, Len(regs))
           /\ regs[i].opts.ttl > 0 /\ i \in elapsed)
          => ~Registered_(regs[i].l, regs[i].key)

\* C38: removeListener(key, f) and removeAllListeners(key), called with
\* any event key, the empty string included, change only the listeners
\* registered under exactly that key or pattern text: the listeners of
\* every other key, the pipes and the catch-all listeners are unchanged.
C38_RemovalTouchesOnlyItsKey ==
    \A i \in 1..Len(regs) :
        regs[i].op \in {"removeListener", "removeAllFor"} => regs[i].view.frame

\* A once-listener threw during the last emit
OnceListenerThrew ==
    /\ last.op = "emit"
    /\ \E c \in 1..Len(last.calls) :
          last.calls[c].phase = "once" /\ Behaviour(last.calls[c].fn) = "throw"

\* C39: if a once-listener throws during emit(key), the exception leaves
\* emit and every once-listener of key, those not yet invoked included,
\* has been removed from the registry, so that an emission that follows
\* invokes none of them.
C39_ThrowingOnceLeavesNoneBehind ==
    /\ [](OnceListenerThrew =>
            /\ last.threw
            /\ Len(regs) = last.pre.nregs => onceEvents[last.key] = <<>>)
    /\ [][(OnceListenerThrew /\ Len(regs) = last.pre.nregs /\ last'.n = last.n + 1)
           => \A c \in 1..Len(last'.calls) : last'.calls[c].phase # "once"]_vars

\* The first of two once-listeners threw, the second was not invoked and
\* neither is registered any more
C39_Witness ==
    /\ OnceListenerThrew
    /\ Len(last.pre.once) = 2
    /\ last.pre.once[1] = Fn("x") /\ last.pre.once[2] = Fn("g")
    /\ CallsOf(Fn("g")) = {}
    /\ onceEvents[last.key] = <<>>

\* Promise p was handed out by waitFor or race
IsWait(p) == p \in DOMAIN promises /\ promises[p].kind \in {"waitFor", "race"}

\* C40: a waitFor or race call with a timeout > 0 eventually settles under
\* any interleaving of emit, removeListener, removeAllListeners and
\* destroy, its timer firing eventually; when it settles without its
\* handler having run, it is rejected by the timer.
C40_WaitAlwaysSettles ==
    /\ \A p \in 1..MaxPromises :
          (IsWait(p) /\ promises[p].timer) ~> (IsWait(p) /\ promises[p].state # "pending")
    /\ [](\A p \in 1..MaxPromises :
            (IsWait(p) /\ promises[p].state # "pending" /\ "listener" \notin promises[p].fired)
            => (promises[p].state = "rejected" /\ "timer" \in promises[p].fired))

\* The handler of a waitFor with a timeout was removed by a caller, the key
\* was then emitted without reaching it, and the promise is rejected
C40_Witness ==
    /\ IsWait(1) /\ promises[1].kind = "waitFor"
    /\ promises[1].state = "rejected" /\ promises[1].fired = {"timer"}
    /\ last.op = "emit" /\ last.key = promises[1].keys[1]
    /\ 1 \in last.pre.pending /\ last.pre.once = <<>> /\ last.calls = <<>>

====
